---------------------------- MODULE Spec2Model ----------------------------
(***************************************************************************)
(* Category-matching scripts of the repository (Foursquare / Overture      *)
(* taxonomies): text normalisers, similarity scorers and best-match        *)
(* selection.                                                              *)
(*                                                                         *)
(* Labels are TLA+ strings (sequences of characters); a character is a     *)
(* string of length 1.  Scores are exact rationals <<num, den>> in lowest  *)
(* terms (the binary floating-point rounding of the Python code is not     *)
(* modelled).                                                              *)
(***************************************************************************)
EXTENDS Integers, Sequences, FiniteSets, TLC

VARIABLES
    fn,       \* harness: name of the pure function under test
    args,     \* harness: its arguments (a tuple of labels)
    ret,      \* harness: its return value, None before the call
    pc,                \* CategoryMapper: position in run_mapping_process
    foursquare_data,   \* CategoryMapper.foursquare_data (rows, index 0..n-1)
    overture_data,     \* CategoryMapper.overture_data (CATEGORY_PRIMARY of each row)
    semantic_groups,   \* the category lists of CategoryMapper.semantic_groups
    mapping_results,   \* CategoryMapper.mapping_results
    matched_overture,  \* find_best_matches: indices of the matched Overture rows
    sem_todo,          \* find_best_matches: (group, fs_cat) still to visit, first pass
    unmatched_ov,      \* find_best_matches: Overture indices left for the direct pass
    direct_todo,       \* find_best_matches: unmatched_fs rows still to visit
    run_results,       \* observer: mapping_results at the return of each find_best_matches
    script,     \* script run: which script's entry point is running
    fsq_df,     \* script run: rows of the Foursquare (target) file
    om_df,      \* script run: rows of the Overture (source) file
    todo,       \* script run: source rows the mapping loop has still to visit
    out_rows,   \* script run: result rows collected by the mapping loop
    written,    \* script run: rows of the output file, None while not written
    amb_rows,   \* script run: rows of the file of low-confidence matches
    run_pc,     \* script run: position in the entry point
    exception   \* script run: the exception that ended the run, "none" if none

harnessVars == <<fn, args, ret>>

mapperVars ==
    <<pc, foursquare_data, overture_data, semantic_groups, mapping_results,
      matched_overture, sem_todo, unmatched_ov, direct_todo, run_results>>

scriptVars ==
    <<script, fsq_df, om_df, todo, out_rows, written, amb_rows, run_pc, exception>>

vars == <<harnessVars, mapperVars, scriptVars>>

None == <<>>

\* a value that is not None, where the model has to tell the two apart
Some(v) == <<v>>

-----------------------------------------------------------------------------
(* Bounds of the model                                                     *)

\* longest label generated exhaustively over GenChars
MaxGenLen == 2

\* most rows of the Foursquare table
MaxFsRows == 2

\* most rows of the Overture table
MaxOvRows == 3

-----------------------------------------------------------------------------
(* Rationals                                                               *)

RECURSIVE Gcd(_, _)
Gcd(a, b) == IF b = 0 THEN a ELSE Gcd(b, a % b)

Rat(n, d) == LET g == Gcd(n, d) IN <<n \div g, d \div g>>

RAdd(p, q) == Rat(p[1] * q[2] + q[1] * p[2], p[2] * q[2])

RLt(p, q) == p[1] * q[2] < q[1] * p[2]

RLe(p, q) == p[1] * q[2] <= q[1] * p[2]

RMin(p, q) == IF RLt(q, p) THEN q ELSE p

RMax(p, q) == IF RLt(p, q) THEN q ELSE p

Zero == Rat(0, 1)

One == Rat(1, 1)

-----------------------------------------------------------------------------
(* Python str primitives                                                   *)

Char(s, i) == SubSeq(s, i, i)

Drop(s, n) == SubSeq(s, n + 1, Len(s))

Take(s, n) == SubSeq(s, 1, n)

UpperCase == "ABCDEFGHIJKLMNOPQRSTUVWXYZ"

LowerCase == "abcdefghijklmnopqrstuvwxyz"

Digits == "0123456789"

\* c occurs in the string of characters cs
IsOneOf(c, cs) == \E i \in 1..Len(cs) : Char(cs, i) = c

LowerChar(c) ==
    IF IsOneOf(c, UpperCase)
    THEN Char(LowerCase, CHOOSE i \in 1..Len(UpperCase) : Char(UpperCase, i) = c)
    ELSE c

RECURSIVE Lower(_)
\* str.lower()
Lower(s) == IF s = "" THEN "" ELSE LowerChar(Char(s, 1)) \o Lower(Drop(s, 1))

\* sub in s
Contains(sub, s) ==
    \E i \in 1..(Len(s) - Len(sub) + 1) : SubSeq(s, i, i + Len(sub) - 1) = sub

RECURSIVE Replace(_, _, _)
\* s.replace(old, new) for a non-empty old: leftmost, non-overlapping
Replace(s, old, new) ==
    IF Len(s) < Len(old) THEN s
    ELSE IF Take(s, Len(old)) = old
         THEN new \o Replace(Drop(s, Len(old)), old, new)
         ELSE Char(s, 1) \o Replace(Drop(s, 1), old, new)

\* \s of the re module, for the characters labels are made of
IsSpace(c) == c = " "

\* \w of the re module
IsWord(c) == IsOneOf(c, LowerCase) \/ IsOneOf(c, UpperCase) \/ IsOneOf(c, Digits) \/ c = "_"

RECURSIVE SkipSpaces(_)
SkipSpaces(s) == IF s # "" /\ IsSpace(Char(s, 1)) THEN SkipSpaces(Drop(s, 1)) ELSE s

RECURSIVE WordLen(_)
\* length of the leading run of non-space characters
WordLen(s) == IF s = "" \/ IsSpace(Char(s, 1)) THEN 0 ELSE 1 + WordLen(Drop(s, 1))

RECURSIVE Split(_)
\* s.split(): the maximal runs of non-space characters, in order
Split(s) ==
    LET t == SkipSpaces(s)
        n == WordLen(t)
    IN IF t = "" THEN <<>> ELSE <<Take(t, n)>> \o Split(Drop(t, n))

RECURSIVE Join(_, _)
\* sep.join(ws)
Join(sep, ws) ==
    IF ws = <<>> THEN ""
    ELSE IF Len(ws) = 1 THEN ws[1]
    ELSE ws[1] \o sep \o Join(sep, Tail(ws))

Range(f) == {f[i] : i \in DOMAIN f}

-----------------------------------------------------------------------------
(* difflib.SequenceMatcher(None, a, b).ratio()                             *)

RECURSIVE CommonPrefixLen(_, _)
CommonPrefixLen(a, b) ==
    IF a = "" \/ b = "" \/ Char(a, 1) # Char(b, 1) THEN 0
    ELSE 1 + CommonPrefixLen(Drop(a, 1), Drop(b, 1))

\* the length of the common run starting at a[p[1]] and b[p[2]], for every
\* pair of positions (the j2len table of find_longest_match)
PrefixTable(a, b) ==
    [p \in (1..Len(a)) \X (1..Len(b)) |->
        CommonPrefixLen(Drop(a, p[1] - 1), Drop(b, p[2] - 1))]

\* the longest run of table L
BestSize(L) ==
    IF DOMAIN L = {} THEN 0
    ELSE CHOOSE m \in Range(L) : \A x \in Range(L) : x <= m

\* the earliest start in a of a run of size k > 0
BestI(L, la, lb, k) ==
    CHOOSE x \in 1..la :
        /\ \E y \in 1..lb : L[<<x, y>>] = k
        /\ \A z \in 1..(x - 1) : \A y \in 1..lb : L[<<z, y>>] # k

\* the earliest start in b of a run of size k > 0 that starts at i in a
BestJ(L, lb, k, i) ==
    CHOOSE y \in 1..lb :
        /\ L[<<i, y>>] = k
        /\ \A z \in 1..(y - 1) : L[<<i, z>>] # k

\* the block of size k > 0 starting at i in a
BlockAt(L, lb, k, i) == [i |-> i, j |-> BestJ(L, lb, k, i), k |-> k]

\* the block of size k
BlockOfSize(L, la, lb, k) ==
    IF k = 0 THEN [i |-> 0, j |-> 0, k |-> 0]
    ELSE BlockAt(L, lb, k, BestI(L, la, lb, k))

LongestIn(L, la, lb) == BlockOfSize(L, la, lb, BestSize(L))

\* find_longest_match: the longest block a[i..i+k-1] = b[j..j+k-1], the one
\* starting earliest in a, and of those the one starting earliest in b
\* (no junk; autojunk only acts on sequences of 200 elements or more)
find_longest_match(a, b) == LongestIn(PrefixTable(a, b), Len(a), Len(b))

RECURSIVE MatchedChars(_, _)
RECURSIVE BlockSum(_, _, _)
\* the size of block m plus the matches to its left and to its right
BlockSum(a, b, m) ==
    IF m.k = 0 THEN 0
    ELSE m.k + MatchedChars(Take(a, m.i - 1), Take(b, m.j - 1))
             + MatchedChars(Drop(a, m.i + m.k - 1), Drop(b, m.j + m.k - 1))

\* sum of the sizes of get_matching_blocks()
MatchedChars(a, b) == BlockSum(a, b, find_longest_match(a, b))

\* ratio(): 2.0 * matches / (len(a) + len(b)), 1.0 when both are empty
ratio(a, b) ==
    IF Len(a) + Len(b) = 0 THEN One
    ELSE Rat(2 * MatchedChars(a, b), Len(a) + Len(b))

-----------------------------------------------------------------------------
(* category_mapper.py: CategoryMapper                                      *)

\* the replacements dict of normalize_text, in insertion order
CM_replacements ==
    << <<"&", "and">>, <<"+", "and">>, <<"/", " ">>, <<"-", " ">>,
       <<"_", " ">>, <<"  ", " ">> >>

RECURSIVE CM_ApplyReplacements(_, _)
CM_ApplyReplacements(text, n) ==
    IF n > Len(CM_replacements) THEN text
    ELSE CM_ApplyReplacements(
             Replace(text, CM_replacements[n][1], CM_replacements[n][2]), n + 1)

RECURSIVE CM_RemoveSpecial(_)
\* re.sub(r'[^\w\s]', '', text)
CM_RemoveSpecial(s) ==
    IF s = "" THEN ""
    ELSE (IF IsWord(Char(s, 1)) \/ IsSpace(Char(s, 1)) THEN Char(s, 1) ELSE "")
             \o CM_RemoveSpecial(Drop(s, 1))

\* CategoryMapper.normalize_text
CM_normalize_text(text) ==
    Join(" ", Split(CM_RemoveSpecial(CM_ApplyReplacements(Lower(text), 1))))

\* (n / d) * r
RScale(n, d, r) == Rat(n * r[1], d * r[2])

\* intersection / union of the word sets, 0 when there are no words
CM_word_similarity(words1, words2) ==
    IF words1 = {} /\ words2 = {} THEN Zero
    ELSE Rat(Cardinality(words1 \cap words2), Cardinality(words1 \cup words2))

CM_containment_bonus(norm_text1, norm_text2) ==
    IF Contains(norm_text1, norm_text2) \/ Contains(norm_text2, norm_text1)
    THEN Rat(2, 10) ELSE Zero

\* seq_similarity * 0.4 + word_similarity * 0.5 + containment_bonus
CM_final_score(norm_text1, norm_text2) ==
    RAdd(RAdd(RScale(4, 10, ratio(norm_text1, norm_text2)),
              RScale(5, 10, CM_word_similarity(Range(Split(norm_text1)),
                                               Range(Split(norm_text2))))),
         CM_containment_bonus(norm_text1, norm_text2))

\* as CM_score_normalized, without the exact-match return
CM_score_no_exact_match(norm_text1, norm_text2) ==
    RMin(CM_final_score(norm_text1, norm_text2), One)

\* as CM_score_normalized, without the clamp to 1.0
CM_score_no_clamp(norm_text1, norm_text2) ==
    IF norm_text1 = norm_text2 THEN One
    ELSE CM_final_score(norm_text1, norm_text2)

\* calculate_similarity_score from the exact-match test on
CM_score_normalized(norm_text1, norm_text2) ==
    IF norm_text1 = norm_text2 THEN One
    ELSE RMin(CM_final_score(norm_text1, norm_text2), One)

\* CategoryMapper.calculate_similarity_score
calculate_similarity_score(text1, text2) ==
    IF text1 = "" \/ text2 = "" THEN Zero
    ELSE CM_score_normalized(CM_normalize_text(text1), CM_normalize_text(text2))

-----------------------------------------------------------------------------------------------------------------------------------------------------
(* category_mapper.py: the mapping process                                 *)

\* the keywords of CategoryMapper.semantic_groups, in insertion order
semantic_groups_table ==
    << [name |-> "food_dining",
        keywords |-> <<
            "restaurant", "cafe", "bar", "food", "dining",
            "bakery", "diner", "eatery", "bistro", "grill",
            "kitchen", "cuisine", "pizza", "burger", "sandwich",
            "coffee", "tea", "brewery", "pub", "tavern",
            "steakhouse">>],
       [name |-> "retail_shopping",
        keywords |-> <<
            "store", "shop", "retail", "market", "boutique",
            "mall", "outlet", "vendor", "dealer", "supplier",
            "wholesaler", "shopping">>],
       [name |-> "healthcare_medical",
        keywords |-> <<
            "hospital", "clinic", "medical", "doctor",
            "dentist", "pharmacy", "health", "physician",
            "surgeon", "therapy", "treatment", "care">>],
       [name |-> "entertainment_recreation",
        keywords |-> <<
            "entertainment", "recreation", "sports", "fitness",
            "gym", "park", "theater", "cinema", "museum",
            "club", "center", "venue", "stadium">>],
       [name |-> "services_professional",
        keywords |-> <<
            "service", "agency", "office", "professional",
            "consulting", "repair", "maintenance", "cleaning",
            "legal", "financial">>],
       [name |-> "transportation",
        keywords |-> <<
            "transport", "station", "airport", "parking",
            "rental", "taxi", "bus", "train", "subway", "ferry",
            "automotive", "gas">>],
       [name |-> "accommodation_lodging",
        keywords |-> <<
            "hotel", "motel", "lodge", "inn", "resort",
            "accommodation", "hostel", "bed", "breakfast">>],
       [name |-> "education_institutions",
        keywords |-> <<
            "school", "university", "college", "education",
            "academy", "institute", "learning", "training",
            "library">>],
       [name |-> "government_public",
        keywords |-> <<
            "government", "public", "municipal", "federal",
            "state", "city", "hall", "office", "department",
            "agency", "court">>],
       [name |-> "religious_spiritual",
        keywords |-> <<
            "church", "temple", "mosque", "synagogue",
            "religious", "spiritual", "cathedral", "chapel",
            "worship">>] >>

GroupIds == 1..Len(semantic_groups_table)

\* sample rows of 'Foursquare Category Mapping.csv'
FsCatalog ==
    {[id |-> "fs_coffee", name |-> "Coffee Shop", label |-> "Dining > Coffee Shop"],
     [id |-> "fs_pizza", name |-> "Pizza Restaurant", label |-> "Dining > Pizza Restaurant"],
     [id |-> "fs_gift", name |-> "Gift Shop", label |-> "Retail > Gift Shop"],
     [id |-> "fs_bank", name |-> "Bank", label |-> "Bank"]}

\* sample CATEGORY_PRIMARY values of 'Overture Category Mapping.csv'
OvCatalog == {"coffee_shop", "coffee-shop", "gift_shop", "bank"}

\* the sequences of at most n distinct elements of S
RECURSIVE DistinctSeqs(_, _)
DistinctSeqs(S, n) ==
    IF n = 0 THEN {<<>>}
    ELSE LET shorter == DistinctSeqs(S, n - 1)
         IN shorter \cup UNION {{Append(q, x) : x \in S \ Range(q)} : q \in shorter}

\* the rows of a table with their index, as DataFrame.iterrows() gives them
Indices(table) == {i - 1 : i \in DOMAIN table}

\* some keyword of the group occurs in the text
InGroup(g, text) ==
    \E n \in DOMAIN semantic_groups_table[g].keywords :
        Contains(semantic_groups_table[g].keywords[n], text)

\* the entry categorize_by_semantics builds for a Foursquare row
FsEntry(index, row, full_text) ==
    [index |-> index, id |-> row.id, name |-> row.name, label |-> row.label,
     normalized |-> full_text]

\* the entries of the Foursquare rows, in iterrows() order
FsEntries(table) ==
    [i \in DOMAIN table |->
        FsEntry(i - 1, table[i],
                CM_normalize_text(table[i].name) \o " "
                    \o CM_normalize_text(table[i].label))]

\* the entries of the Overture rows, in iterrows() order
OvEntries(table) ==
    [i \in DOMAIN table |->
        [index |-> i - 1, name |-> table[i],
         normalized |-> CM_normalize_text(table[i])]]

RECURSIVE Members(_, _)
\* the entries categorize_by_semantics appends to group g
Members(g, entries) ==
    IF entries = <<>> THEN <<>>
    ELSE (IF InGroup(g, Head(entries).normalized) THEN <<Head(entries)>> ELSE <<>>)
             \o Members(g, Tail(entries))

\* self.semantic_groups after both loops of categorize_by_semantics
Grouped(groups, fs_entries, ov_entries) ==
    [g \in GroupIds |->
        [foursquare_categories |->
             groups[g].foursquare_categories \o Members(g, fs_entries),
         overture_categories |->
             groups[g].overture_categories \o Members(g, ov_entries)]]

\* as AlreadyMatched, with matched_overture never consulted
NeverMatched(index, matched) == FALSE

\* as MeetsGroupThreshold, without the minimum threshold
AnyScore(score) == TRUE

\* ov_cat['index'] in matched_overture (and ov_idx in matched_overture)
AlreadyMatched(index, matched) == index \in matched

\* as MeetsGroupThreshold, with the threshold of the direct pass
MeetsGroupThresholdOfDirectPass(score) == RLe(Rat(4, 10), score)

\* score >= 0.3 of the semantic-group pass
MeetsGroupThreshold(score) == RLe(Rat(3, 10), score)

\* score >= 0.4 of the direct pass
MeetsDirectThreshold(score) == RLe(Rat(4, 10), score)

NoBest == [best_score |-> Zero, best_match |-> None]

\* as GroupBest, with 'score >= best_score' in place of 'score > best_score'
GroupBestOrEqual(ov_cat, score, matched, best) ==
    IF AlreadyMatched(ov_cat.index, matched) THEN best
    ELSE IF RLe(best.best_score, score) /\ MeetsGroupThreshold(score)
         THEN [best_score |-> score, best_match |-> ov_cat]
         ELSE best

\* one iteration of the inner loop of the semantic-group pass
GroupBest(ov_cat, score, matched, best) ==
    IF AlreadyMatched(ov_cat.index, matched) THEN best
    ELSE IF RLt(best.best_score, score) /\ MeetsGroupThreshold(score)
         THEN [best_score |-> score, best_match |-> ov_cat]
         ELSE best

RECURSIVE GroupScan(_, _, _, _)
\* the inner loop of the semantic-group pass over the group's overture entries
GroupScan(fs_cat, ov_cats, matched, best) ==
    IF ov_cats = <<>> THEN best
    ELSE GroupScan(fs_cat, Tail(ov_cats), matched,
                   GroupBest(Head(ov_cats),
                             calculate_similarity_score(fs_cat.name,
                                                        Head(ov_cats).name),
                             matched, best))

RECURSIVE LastPart(_)
\* label.split(' > ')[-1]
LastPart(label) ==
    IF \E i \in 1..(Len(label) - 2) : SubSeq(label, i, i + 2) = " > "
    THEN LastPart(Drop(label,
             2 + CHOOSE i \in 1..(Len(label) - 2) :
                    /\ SubSeq(label, i, i + 2) = " > "
                    /\ \A j \in 1..(i - 1) : SubSeq(label, j, j + 2) # " > "))
    ELSE label

\* one iteration of the inner loop of the direct pass
DirectBest(ov_idx, ov_name, score, matched, best) ==
    IF AlreadyMatched(ov_idx, matched) THEN best
    ELSE IF RLt(best.best_score, score) /\ MeetsDirectThreshold(score)
         THEN [best_score |-> score,
               best_match |-> [index |-> ov_idx, name |-> ov_name]]
         ELSE best

\* max(score1, score2) of the direct pass
DirectScore(fs_row, ov_name) ==
    RMax(calculate_similarity_score(fs_row.name, ov_name),
         calculate_similarity_score(LastPart(fs_row.label), ov_name))

RECURSIVE DirectScan(_, _, _, _)
\* the inner loop of the direct pass over unmatched_ov (a sequence of indices)
DirectScan(fs_row, ov_idxs, matched, best) ==
    IF ov_idxs = <<>> THEN best
    ELSE DirectScan(fs_row, Tail(ov_idxs), matched,
                    DirectBest(Head(ov_idxs), overture_data[Head(ov_idxs) + 1],
                               DirectScore(fs_row,
                                           overture_data[Head(ov_idxs) + 1]),
                               matched, best))

RECURSIVE SelectSeq2(_, _)
\* the elements of sequence q whose key is not in the set Skip, in order
SelectSeq2(q, Skip) ==
    IF q = <<>> THEN <<>>
    ELSE (IF Head(q).key \in Skip THEN <<>> ELSE <<Head(q).val>>)
             \o SelectSeq2(Tail(q), Skip)

RECURSIVE Flatten(_)
Flatten(qq) == IF qq = <<>> THEN <<>> ELSE Head(qq) \o Flatten(Tail(qq))

\* a row of mapping_results; overture_index is not a key of the code's dict:
\* it records which Overture row best_match was
ResultRow(fs, ov_name, ov_index, score, type, group) ==
    [foursquare_id |-> fs.id, foursquare_name |-> fs.name,
     foursquare_label |-> fs.label, overture_category |-> ov_name,
     overture_index |-> ov_index, similarity_score |-> score,
     match_type |-> type, semantic_group |-> group]

IdleHarness == fn = "idle" /\ args = <<>> /\ ret = None

IdleMapper ==
    /\ pc = "idle"
    /\ foursquare_data = None /\ overture_data = None
    /\ semantic_groups = None /\ mapping_results = <<>>
    /\ matched_overture = {} /\ sem_todo = <<>>
    /\ unmatched_ov = <<>> /\ direct_todo = <<>>
    /\ run_results = <<>>

IdleScripts ==
    /\ script = "idle" /\ run_pc = "idle" /\ exception = "none"
    /\ fsq_df = <<>> /\ om_df = <<>> /\ todo = <<>>
    /\ out_rows = <<>> /\ written = None /\ amb_rows = <<>>

\* CategoryMapper.__init__
InitMapper ==
    /\ pc = "new"
    /\ foursquare_data = None
    /\ overture_data = None
    /\ semantic_groups =
           [g \in GroupIds |-> [foursquare_categories |-> <<>>,
                                overture_categories |-> <<>>]]
    /\ mapping_results = <<>>
    /\ matched_overture = {}
    /\ sem_todo = <<>>
    /\ unmatched_ov = <<>>
    /\ direct_todo = <<>>
    /\ run_results = <<>>
    /\ IdleHarness
    /\ IdleScripts

\* the Overture table of the end-to-end scenario
ScenarioTargets == <<"coffee_shop", "pizza_place", "bank">>

\* CategoryMapper.load_data
load_data ==
    /\ pc = "new"
    /\ foursquare_data' \in DistinctSeqs(FsCatalog, MaxFsRows)
    /\ overture_data' \in DistinctSeqs(OvCatalog, MaxOvRows) \cup {ScenarioTargets}
    /\ pc' = "loaded"
    /\ UNCHANGED <<semantic_groups, mapping_results, matched_overture, sem_todo,
                   unmatched_ov, direct_todo, run_results,
                   harnessVars, scriptVars>>

\* CategoryMapper.categorize_by_semantics
categorize_by_semantics ==
    /\ pc = "loaded"
    /\ semantic_groups' =
           Grouped(semantic_groups, FsEntries(foursquare_data),
                   OvEntries(overture_data))
    /\ pc' = "categorized"
    /\ UNCHANGED <<foursquare_data, overture_data, mapping_results,
                   matched_overture, sem_todo, unmatched_ov, direct_todo,
                   run_results,
                   harnessVars, scriptVars>>

\* find_best_matches, entry: matched_overture = set()
fbm_begin ==
    /\ pc = "categorized"
    /\ matched_overture' = {}
    /\ sem_todo' =
           Flatten([g \in GroupIds |->
               [k \in DOMAIN semantic_groups[g].foursquare_categories |->
                   [group |-> g,
                    fs_cat |-> semantic_groups[g].foursquare_categories[k]]]])
    /\ pc' = "semantic"
    /\ UNCHANGED <<foursquare_data, overture_data, semantic_groups,
                   mapping_results, unmatched_ov, direct_todo, run_results,
                   harnessVars, scriptVars>>

\* as RecordBest, without matched_overture.add
RecordBestUnclaimed(fs, best, type, group) ==
    /\ mapping_results' =
           IF best.best_match # None
           THEN Append(mapping_results,
                       ResultRow(fs, Some(best.best_match.name),
                                 Some(best.best_match.index),
                                 best.best_score, type, group))
           ELSE mapping_results
    /\ UNCHANGED matched_overture

\* the 'if best_match:' block of either pass
RecordBest(fs, best, type, group) ==
    IF best.best_match # None
    THEN /\ matched_overture' = matched_overture \cup {best.best_match.index}
         /\ mapping_results' =
                Append(mapping_results,
                       ResultRow(fs, Some(best.best_match.name),
                                 Some(best.best_match.index),
                                 best.best_score, type, group))
    ELSE UNCHANGED <<matched_overture, mapping_results>>

\* the body of the first pass for fs_cat of group g
SemanticBody(g, fs_cat) ==
    RecordBest(fs_cat,
               GroupScan(fs_cat, semantic_groups[g].overture_categories,
                         matched_overture, NoBest),
               "semantic_group", semantic_groups_table[g].name)

\* find_best_matches, first pass: one fs_cat of one semantic group
fbm_semantic_step ==
    /\ pc = "semantic"
    /\ sem_todo # <<>>
    /\ SemanticBody(Head(sem_todo).group, Head(sem_todo).fs_cat)
    /\ sem_todo' = Tail(sem_todo)
    /\ UNCHANGED <<pc, foursquare_data, overture_data, semantic_groups,
                   unmatched_ov, direct_todo, run_results,
                   harnessVars, scriptVars>>

\* find_best_matches, between the passes: unmatched_fs and unmatched_ov
fbm_direct_begin ==
    /\ pc = "semantic"
    /\ sem_todo = <<>>
    /\ LET matched_fs_ids == {mapping_results[k].foursquare_id :
                                 k \in DOMAIN mapping_results}
       IN /\ direct_todo' =
                 SelectSeq2([i \in DOMAIN foursquare_data |->
                                [key |-> foursquare_data[i].id,
                                 val |-> foursquare_data[i]]], matched_fs_ids)
          /\ unmatched_ov' =
                 SelectSeq2([i \in DOMAIN overture_data |->
                                [key |-> i - 1, val |-> i - 1]], matched_overture)
    /\ pc' = "direct"
    /\ UNCHANGED <<foursquare_data, overture_data, semantic_groups,
                   mapping_results, matched_overture, sem_todo, run_results,
                   harnessVars, scriptVars>>

\* the body of the second pass for fs_row
DirectBody(fs_row) ==
    RecordBest(fs_row,
               DirectScan(fs_row, unmatched_ov, matched_overture, NoBest),
               "direct_match", "none")

\* find_best_matches, second pass: one row of unmatched_fs
fbm_direct_step ==
    /\ pc = "direct"
    /\ direct_todo # <<>>
    /\ DirectBody(Head(direct_todo))
    /\ direct_todo' = Tail(direct_todo)
    /\ UNCHANGED <<pc, foursquare_data, overture_data, semantic_groups,
                   sem_todo, unmatched_ov, run_results,
                   harnessVars, scriptVars>>

\* find_best_matches, end: the rows of the Foursquare categories left unmatched
fbm_add_unmatched ==
    /\ pc = "direct"
    /\ direct_todo = <<>>
    /\ LET final_matched_fs_ids == {mapping_results[k].foursquare_id :
                                       k \in DOMAIN mapping_results}
           rest == SelectSeq2([i \in DOMAIN foursquare_data |->
                                  [key |-> foursquare_data[i].id,
                                   val |-> foursquare_data[i]]],
                              final_matched_fs_ids)
       IN mapping_results' =
              mapping_results \o
                  [k \in DOMAIN rest |->
                      ResultRow(rest[k], None, None, Zero, "no_match", "none")]
    /\ run_results' = Append(run_results, mapping_results')
    /\ pc' = "done"
    /\ UNCHANGED <<foursquare_data, overture_data, semantic_groups,
                   matched_overture, sem_todo, unmatched_ov, direct_todo,
                   harnessVars, scriptVars>>

\* run_mapping_process, as the script's entry point runs it once
NextMapper ==
    \/ load_data
    \/ categorize_by_semantics
    \/ fbm_begin
    \/ fbm_semantic_step
    \/ fbm_direct_begin
    \/ fbm_direct_step
    \/ fbm_add_unmatched

SpecMapper == InitMapper /\ [][NextMapper]_vars

-----------------------------------------------------------------------------
(* Claims about the mapping process                                        *)

Results == {mapping_results[k] : k \in DOMAIN mapping_results}

MatchedRows == {k \in DOMAIN mapping_results :
                   mapping_results[k].overture_category # None}

\* C1: no Overture row is the matched target of more than one result row,
\* in the semantic-group pass and in the direct pass alike.
C1_TargetClaimedOnce ==
    \A j, k \in MatchedRows :
        mapping_results[j].overture_index = mapping_results[k].overture_index
            => j = k

\* the run is over, two targets are claimed, and a source that scores above
\* the direct threshold with a claimed target was left without a match
C1_Witness ==
    /\ pc = "done"
    /\ Cardinality(matched_overture) >= 2
    /\ \E r, m \in Results :
           /\ r.match_type = "no_match"
           /\ m.overture_category # None
           /\ MeetsDirectThreshold(
                  calculate_similarity_score(r.foursquare_name,
                                             m.overture_category[1]))

\* C2: after the run every Foursquare category (Category ID) is in exactly
\* one row of mapping_results.
C2_SourceExactlyOnce ==
    pc = "done" =>
        \A i \in DOMAIN foursquare_data :
            Cardinality({k \in DOMAIN mapping_results :
                            mapping_results[k].foursquare_id = foursquare_data[i].id})
                = 1

\* C3: every result row is matched at or above its pass threshold (and at
\* most 1.0) with a target, or is unmatched with no target and score 0.
C3_RowMatchedOrUnmatched ==
    \A r \in Results :
        \/ /\ r.match_type = "semantic_group"
           /\ r.overture_category # None
           /\ RLe(Rat(3, 10), r.similarity_score) /\ RLe(r.similarity_score, One)
        \/ /\ r.match_type = "direct_match"
           /\ r.overture_category # None
           /\ RLe(Rat(4, 10), r.similarity_score) /\ RLe(r.similarity_score, One)
        \/ /\ r.match_type = "no_match"
           /\ r.overture_category = None
           /\ r.similarity_score = Zero

\* the run is over with a semantic-group row scoring below 1.0 and a
\* direct-match row
C3_Witness ==
    /\ pc = "done"
    /\ \E r \in Results : /\ r.match_type = "semantic_group"
                          /\ RLt(r.similarity_score, One)
    /\ \E r \in Results : r.match_type = "direct_match"

-----------------------------------------------------------------------------
(* map_categories.py and its copy map_om_to_fsq_categories.py              *)

\* normalize_text (the same in both files)
MC_normalize_text(text) == Join(" ", Split(Replace(Lower(text), "_", " ")))

MC_stop_words ==
    {"and", "or", "the", "a", "an", "in", "of", "for", "to", "with", "at", "by", "from"}

\* map_categories.extract_keywords
MC_extract_keywords(text) ==
    {w \in Range(Split(text)) : w \notin MC_stop_words /\ Len(w) > 1}

MOFC_stop_words == MC_stop_words \cup {"on"}

\* map_om_to_fsq_categories.extract_keywords
MOFC_extract_keywords(text) ==
    {w \in Range(Split(text)) : w \notin MOFC_stop_words /\ Len(w) > 2}

\* matching / len(om_keywords) * 100, 0 when either keyword set is empty
\* (the same lines in both files)
MC_keyword_overlap(om_keywords, fsq_keywords) ==
    IF om_keywords # {} /\ fsq_keywords # {}
    THEN Rat(Cardinality(om_keywords \cap fsq_keywords) * 100,
             Cardinality(om_keywords))
    ELSE Zero

\* containment_bonus (the same lines in both files)
MC_containment_bonus(om_norm, fsq_norm, om_keywords) ==
    IF Contains(om_norm, fsq_norm) THEN 30
    ELSE IF \E word \in om_keywords : Len(word) > 3 /\ Contains(word, fsq_norm)
         THEN 15
         ELSE 0

\* direct_similarity * 0.4 + keyword_overlap * 0.4 + containment_bonus * 0.2
\* (the same lines in both files)
MC_total_score(om_norm, fsq_norm, om_keywords, fsq_keywords) ==
    RAdd(RAdd(RScale(4, 10, RScale(100, 1, ratio(om_norm, fsq_norm))),
              RScale(4, 10, MC_keyword_overlap(om_keywords, fsq_keywords))),
         Rat(MC_containment_bonus(om_norm, fsq_norm, om_keywords) * 2, 10))

\* map_categories.calculate_similarity from the normalized texts on
MC_similarity_normalized(om_norm, fsq_norm) ==
    MC_total_score(om_norm, fsq_norm,
                   MC_extract_keywords(om_norm), MC_extract_keywords(fsq_norm))

\* map_categories.calculate_similarity
MC_calculate_similarity(om_category, fsq_label) ==
    MC_similarity_normalized(MC_normalize_text(om_category),
                             MC_normalize_text(fsq_label))

\* map_om_to_fsq_categories.calculate_similarity from the normalized texts on
MOFC_similarity_normalized(om_norm, fsq_norm) ==
    MC_total_score(om_norm, fsq_norm,
                   MOFC_extract_keywords(om_norm), MOFC_extract_keywords(fsq_norm))

\* map_om_to_fsq_categories.calculate_similarity
MOFC_calculate_similarity(om_category, fsq_label) ==
    MOFC_similarity_normalized(MC_normalize_text(om_category),
                               MC_normalize_text(fsq_label))

Hundred == Rat(100, 1)

-----------------------------------------------------------------------------
(* fuzzywuzzy.fuzz, as category_mapping_script.py calls it (the            *)
(* SequenceMatcher implementation of the library)                          *)

\* utils.intr: int(round(x)) of a non-negative x, halves to the even integer
\* (exact while the compared strings total fewer than 80 characters)
IntRound(x) ==
    LET fl == x[1] \div x[2]
        rem2 == 2 * (x[1] % x[2])
    IN IF rem2 > x[2] THEN fl + 1
       ELSE IF rem2 < x[2] THEN fl
       ELSE IF fl % 2 = 0 THEN fl ELSE fl + 1

\* fuzz.ratio
fuzz_ratio(s1, s2) ==
    IF s1 = s2 THEN 100
    ELSE IF s1 = "" \/ s2 = "" THEN 0
    ELSE IntRound(RScale(100, 1, ratio(s1, s2)))

RECURSIVE BlockOffsets(_, _, _, _)
RECURSIVE BlockOffsetsFrom(_, _, _, _, _)
\* block[1] - block[0] of block m and of the blocks to its left and right
BlockOffsetsFrom(a, b, ai, bj, m) ==
    IF m.k = 0 THEN {}
    ELSE {(bj + m.j) - (ai + m.i)}
         \cup BlockOffsets(Take(a, m.i - 1), Take(b, m.j - 1), ai, bj)
         \cup BlockOffsets(Drop(a, m.i + m.k - 1), Drop(b, m.j + m.k - 1),
                           ai + m.i + m.k - 1, bj + m.j + m.k - 1)

\* block[1] - block[0] of every block of get_matching_blocks() of a and b,
\* which start at offsets ai and bj of the strings compared
BlockOffsets(a, b, ai, bj) ==
    BlockOffsetsFrom(a, b, ai, bj, find_longest_match(a, b))

\* longer[long_start:long_end] of partial_ratio
PartialWindow(shorter, longer, long_start) ==
    SubSeq(longer, long_start + 1,
           IF long_start + Len(shorter) < Len(longer)
           THEN long_start + Len(shorter) ELSE Len(longer))

\* the ratios partial_ratio collects, one per matching block; the last
\* block of get_matching_blocks() is (len(a), len(b), 0)
PartialScores(shorter, longer) ==
    {ratio(shorter, PartialWindow(shorter, longer, IF o > 0 THEN o ELSE 0)) :
        o \in BlockOffsets(shorter, longer, 0, 0)
                  \cup {Len(longer) - Len(shorter)}}

\* 100 as soon as a ratio exceeds .995, else the rounded maximum
PartialResult(scores) ==
    IF \E r \in scores : RLt(Rat(995, 1000), r) THEN 100
    ELSE IntRound(RScale(100, 1,
                         CHOOSE r \in scores : \A q \in scores : RLe(q, r)))

\* fuzz.partial_ratio
fuzz_partial_ratio(s1, s2) ==
    IF s1 = s2 THEN 100
    ELSE IF s1 = "" \/ s2 = "" THEN 0
    ELSE IF Len(s1) <= Len(s2) THEN PartialResult(PartialScores(s1, s2))
    ELSE PartialResult(PartialScores(s2, s1))

\* the characters of labels in code-point order
AsciiOrder == " !&+-/0123456789>?ABCDEFGHIJKLMNOPQRSTUVWXYZ_abcdefghijklmnopqrstuvwxyz"

Ord(c) == CHOOSE i \in 1..Len(AsciiOrder) : Char(AsciiOrder, i) = c

RECURSIVE StrLess(_, _)
\* a < b on str
StrLess(a, b) ==
    IF b = "" THEN FALSE
    ELSE IF a = "" THEN TRUE
    ELSE IF Char(a, 1) = Char(b, 1) THEN StrLess(Drop(a, 1), Drop(b, 1))
    ELSE Ord(Char(a, 1)) < Ord(Char(b, 1))

RECURSIVE Sorted(_)
\* sorted(S) of a set of strings
Sorted(S) ==
    IF S = {} THEN <<>>
    ELSE LET least == CHOOSE x \in S : \A y \in S \ {x} : StrLess(x, y)
         IN <<least>> \o Sorted(S \ {least})

RECURSIVE StripRight(_)
StripRight(s) ==
    IF s # "" /\ IsSpace(Char(s, Len(s))) THEN StripRight(Take(s, Len(s) - 1)) ELSE s

\* str.strip()
Strip(s) == StripRight(SkipSpaces(s))

RECURSIVE NonWordToSpace(_)
\* replace_non_letters_non_numbers_with_whitespace: re.sub(r"\W", " ", s)
NonWordToSpace(s) ==
    IF s = "" THEN ""
    ELSE (IF IsWord(Char(s, 1)) THEN Char(s, 1) ELSE " ") \o NonWordToSpace(Drop(s, 1))

\* utils.full_process
full_process(s) == Strip(Lower(NonWordToSpace(s)))

Max3(a, b, c) == CHOOSE x \in {a, b, c} : \A y \in {a, b, c} : y <= x

\* max of the pairwise ratios of token_set_ratio
TokenSetPairwise(sorted_sect, combined_1to2, combined_2to1) ==
    Max3(fuzz_ratio(sorted_sect, combined_1to2),
         fuzz_ratio(sorted_sect, combined_2to1),
         fuzz_ratio(combined_1to2, combined_2to1))

\* the stripped strings token_set_ratio compares
TokenSetCombined(sorted_sect, sorted_1to2, sorted_2to1) ==
    TokenSetPairwise(Strip(sorted_sect),
                     Strip(sorted_sect \o " " \o sorted_1to2),
                     Strip(sorted_sect \o " " \o sorted_2to1))

\* token_set_ratio from the token sets on
TokenSetTokens(tokens1, tokens2) ==
    TokenSetCombined(Join(" ", Sorted(tokens1 \cap tokens2)),
                     Join(" ", Sorted(tokens1 \ tokens2)),
                     Join(" ", Sorted(tokens2 \ tokens1)))

\* token_set_ratio from the processed strings on
TokenSetProcessed(p1, p2) ==
    IF p1 = "" \/ p2 = "" THEN 0
    ELSE TokenSetTokens(Range(Split(p1)), Range(Split(p2)))

\* fuzz.token_set_ratio
fuzz_token_set_ratio(s1, s2) ==
    TokenSetProcessed(full_process(s1), full_process(s2))

-----------------------------------------------------------------------------
(* category_mapping_script.py                                              *)

CMS_prefixes == <<"the", "a", "an">>

CMS_suffixes == <<"shop", "store", "restaurant", "bar", "club", "center", "centre">>

\* re.sub(r'^(the|a|an)\s+', '', name)
CMS_StripPrefix(name) ==
    LET hits == {i \in 1..Len(CMS_prefixes) :
                    /\ Len(name) > Len(CMS_prefixes[i])
                    /\ Take(name, Len(CMS_prefixes[i])) = CMS_prefixes[i]
                    /\ IsSpace(Char(name, Len(CMS_prefixes[i]) + 1))}
    IN IF hits = {} THEN name
       ELSE LET first == CHOOSE i \in hits : \A h \in hits : i <= h
            IN SkipSpaces(Drop(name, Len(CMS_prefixes[first])))

\* re.sub(r'\s+(shop|store|restaurant|bar|club|center|centre)$', '', name)
CMS_StripSuffix(name) ==
    LET hits == {i \in 1..Len(CMS_suffixes) :
                    /\ Len(name) > Len(CMS_suffixes[i])
                    /\ Drop(name, Len(name) - Len(CMS_suffixes[i])) = CMS_suffixes[i]
                    /\ IsSpace(Char(name, Len(name) - Len(CMS_suffixes[i])))}
    IN IF hits = {} THEN name
       ELSE LET w == CHOOSE i \in hits : TRUE
            IN StripRight(Take(name, Len(name) - Len(CMS_suffixes[w])))

\* preprocess_category_name
preprocess_category_name(name) ==
    LET lowered == Lower(name)
        cut == CMS_StripSuffix(CMS_StripPrefix(lowered))
        spaced == Replace(Replace(cut, "_", " "), "-", " ")
    IN Join(" ", Split(spaced))

CMS_stop_words ==
    {"and", "or", "the", "a", "an", "of", "in", "on", "at", "to", "for", "with", "by"}

\* extract_keywords (as the set its callers make of it)
CMS_extract_keywords(category_name) ==
    {word \in Range(Split(preprocess_category_name(category_name))) :
        word \notin CMS_stop_words /\ Len(word) > 2}

\* keyword_overlap of calculate_semantic_similarity
CMS_keyword_overlap(om_keywords, fsq_keywords) ==
    IF om_keywords # {} /\ fsq_keywords # {}
    THEN Rat(Cardinality(om_keywords \cap fsq_keywords),
             Cardinality(om_keywords \cup fsq_keywords))
    ELSE Zero

\* the dict calculate_semantic_similarity returns, composite_score being
\* the weighted sum of the six fuzz scores plus keyword_overlap * 100 * 0.1
CMS_result(name_similarity, label_similarity, partial_name, partial_label, token_name, token_label, keyword_overlap) ==
    [composite_score |->
         RAdd(Rat(25 * name_similarity + 25 * label_similarity
                    + 15 * partial_name + 15 * partial_label
                    + 10 * token_name + 10 * token_label, 100),
              RScale(100, 10, keyword_overlap)),
     name_similarity |-> name_similarity,
     label_similarity |-> label_similarity,
     partial_name |-> partial_name,
     partial_label |-> partial_label,
     token_name |-> token_name,
     token_label |-> token_label,
     keyword_overlap |-> keyword_overlap]

\* calculate_semantic_similarity from the cleaned names on
CMS_similarity_clean(om_clean, fsq_name_clean, fsq_label_clean, om_keywords, fsq_keywords) ==
    CMS_result(fuzz_ratio(om_clean, fsq_name_clean),
               fuzz_ratio(om_clean, fsq_label_clean),
               fuzz_partial_ratio(om_clean, fsq_name_clean),
               fuzz_partial_ratio(om_clean, fsq_label_clean),
               fuzz_token_set_ratio(om_clean, fsq_name_clean),
               fuzz_token_set_ratio(om_clean, fsq_label_clean),
               CMS_keyword_overlap(om_keywords, fsq_keywords))

\* calculate_semantic_similarity
calculate_semantic_similarity(om_category, fsq_category_name, fsq_category_label) ==
    CMS_similarity_clean(preprocess_category_name(om_category),
                         preprocess_category_name(fsq_category_name),
                         preprocess_category_name(fsq_category_label),
                         CMS_extract_keywords(om_category),
                         CMS_extract_keywords(fsq_category_name)
                             \cup CMS_extract_keywords(fsq_category_label))

-----------------------------------------------------------------------------
(* Runs of the mapping scripts: tables read, mapping loop, output written  *)

\* sample rows of the Foursquare category file (the columns the scripts read)
FsqCatalog ==
    << [id |-> "4bf58dd8d48988d1e0931735", name |-> "Coffee Shop",
        label |-> "Dining and Drinking > Coffee Shop",
        primary |-> "Dining and Drinking", secondary |-> "Cafe"],
       [id |-> "4bf58dd8d48988d10a951735", name |-> "Bank",
        label |-> "Business and Professional Services > Bank",
        primary |-> "Business and Professional Services",
        secondary |-> "Financial Service"],
       [id |-> "4bf58dd8d48988d1fa931735", name |-> "Hotel",
        label |-> "Travel and Transportation > Lodging > Hotel",
        primary |-> "Travel and Transportation", secondary |-> "Lodging"],
       [id |-> "4bf58dd8d48988d116941735", name |-> "Bar",
        label |-> "Dining and Drinking > Bar",
        primary |-> "Dining and Drinking", secondary |-> "Bar"],
       [id |-> "52f2ab2ebcbc57f1066b8b36", name |-> "Florist",
        label |-> "Retail > Florist",
        primary |-> "Retail", secondary |-> "Florist"],
       [id |-> "4d4b7105d754a06378d81259", name |-> "Retail",
        label |-> "Retail", primary |-> "Retail", secondary |-> ""] >>

\* sample rows of the Overture category file
OmCatalog ==
    {[label |-> "coffee_shop", simplified |-> "Food & Dining", updated |-> "Cafe"],
     [label |-> "bank", simplified |-> "Professional Services", updated |-> "Bank"],
     [label |-> "hotel", simplified |-> "Accommodation & Lodging", updated |-> "Hotel"],
     [label |-> "flower_shop", simplified |-> "Other Services", updated |-> "B2B"],
     [label |-> "-", simplified |-> "Other Services", updated |-> ""]}

\* longest target table a script run may read
MaxTargets == 5

\* longest source table a script run may read
MaxSources == 1

Min(a, b) == IF a <= b THEN a ELSE b

\* the target tables drawn: the runs of at most n consecutive catalog rows,
\* the empty table among them
TargetTables(n) ==
    {SubSeq(FsqCatalog, p[1], p[1] + p[2] - 1) :
        p \in {p \in (1..Len(FsqCatalog)) \X (0..n) :
                  p[1] + p[2] - 1 <= Len(FsqCatalog)}}

RECURSIVE SeqsUpTo(_, _)
\* the source tables drawn: sequences of at most n rows of S, repeats allowed
SeqsUpTo(S, n) ==
    IF n = 0 THEN {<<>>}
    ELSE SeqsUpTo(S, n - 1)
             \cup {Append(q, x) : q \in SeqsUpTo(S, n - 1), x \in S}

RECURSIVE Unique(_, _)
\* Series.unique(): the first occurrence of every value, in order
Unique(q, seen) ==
    IF q = <<>> THEN <<>>
    ELSE IF Head(q) \in seen THEN Unique(Tail(q), seen)
    ELSE <<Head(q)>> \o Unique(Tail(q), seen \cup {Head(q)})

RECURSIVE InsertDesc(_, _)
\* e placed behind every element of the descending list whose key is not smaller
InsertDesc(sorted, e) ==
    IF sorted = <<>> THEN <<e>>
    ELSE IF RLt(Head(sorted).key, e.key) THEN <<e>> \o sorted
    ELSE <<Head(sorted)>> \o InsertDesc(Tail(sorted), e)

RECURSIVE SortDesc(_, _)
\* list.sort(key=..., reverse=True): descending and stable
SortDesc(q, acc) ==
    IF q = <<>> THEN acc ELSE SortDesc(Tail(q), InsertDesc(acc, Head(q)))

\* matches[:top_n]
FirstN(q, top_n) == SubSeq(q, 1, Min(top_n, Len(q)))

\* round(x, 2) of a non-negative score (exact halves go to the even digit)
Round2(x) == Rat(IntRound(RScale(100, 1, x)), 100)

\* the variables of a run that a step of the mapping loop leaves alone
LoopFrame ==
    UNCHANGED <<script, fsq_df, om_df, written, amb_rows, harnessVars, mapperVars>>

\* the run ends with exception e
Raise(e) ==
    /\ run_pc' = "raised"
    /\ exception' = e
    /\ UNCHANGED <<todo, out_rows>>

\* the loop body appended result and goes on with the next source
Emit(result) ==
    /\ out_rows' = Append(out_rows, result)
    /\ todo' = Tail(todo)
    /\ UNCHANGED <<run_pc, exception>>

\* pd.read_csv of both files, and the list of sources the loop visits
ReadTables(max_targets, sources_of_om) ==
    /\ run_pc = "start"
    /\ fsq_df' \in TargetTables(max_targets)
    /\ om_df' \in SeqsUpTo(OmCatalog, MaxSources)
    /\ todo' = sources_of_om
    /\ run_pc' = "mapping"
    /\ UNCHANGED <<script, out_rows, written, amb_rows, exception, harnessVars,
                   mapperVars>>

\* om_df['CATEGORY_PRIMARY'].dropna().unique() (the rows drawn have no NaN)
UniqueLabels(df) == Unique([i \in DOMAIN df |-> df[i].label], {})

\* map_categories.find_best_matches before the sort: one match per target row
MC_matches(om_category, df) ==
    [i \in DOMAIN df |->
        [key |-> RMax(MC_calculate_similarity(om_category, df[i].label),
                      MC_calculate_similarity(om_category, df[i].name)),
         category_id |-> df[i].id]]

\* map_categories.find_best_matches
MC_find_best_matches(om_category, df, top_n) ==
    FirstN(SortDesc(MC_matches(om_category, df), <<>>), top_n)

\* the result dict of map_categories.main, which reads top_matches[0..2]
MC_result(om_cat, top_matches) ==
    [OM_Category |-> om_cat,
     FSQ_Category_ID_1 |-> top_matches[1].category_id,
     Similarity_Score_1 |-> Round2(top_matches[1].key),
     FSQ_Category_ID_2 |-> top_matches[2].category_id,
     Similarity_Score_2 |-> Round2(top_matches[2].key),
     FSQ_Category_ID_3 |-> top_matches[3].category_id,
     Similarity_Score_3 |-> Round2(top_matches[3].key)]

\* the loop body of map_categories.main from top_matches on
MC_store(om_cat, top_matches) ==
    IF Len(top_matches) < 3 THEN Raise("IndexError")
    ELSE Emit(MC_result(om_cat, top_matches))

\* map_categories.main: both files read, om_categories made
MC_main_load ==
    /\ script = "map_categories"
    /\ ReadTables(MaxTargets, UniqueLabels(om_df'))

\* map_categories.main: one iteration of the mapping loop
MC_main_step ==
    /\ script = "map_categories"
    /\ run_pc = "mapping"
    /\ todo # <<>>
    /\ MC_store(Head(todo), MC_find_best_matches(Head(todo), fsq_df, 3))
    /\ LoopFrame

\* map_categories.main after the loop: the file is written, then the
\* statistics read column Similarity_Score_1, which a frame without rows lacks
MC_main_finish ==
    /\ script = "map_categories"
    /\ run_pc = "mapping"
    /\ todo = <<>>
    /\ written' = Some(out_rows)
    /\ IF out_rows = <<>>
       THEN run_pc' = "raised" /\ exception' = "KeyError"
       ELSE run_pc' = "done" /\ UNCHANGED exception
    /\ UNCHANGED <<script, fsq_df, om_df, todo, out_rows, amb_rows, harnessVars,
                   mapperVars>>

\* map_om_to_fsq_categories.find_best_matches before the sort
MOFC_matches(om_category, df) ==
    [i \in DOMAIN df |->
        [key |-> RMax(MOFC_calculate_similarity(om_category, df[i].label),
                      MOFC_calculate_similarity(om_category, df[i].name)),
         FSQ_Category_ID |-> df[i].id,
         FSQ_Category_Label |-> df[i].label]]

\* map_om_to_fsq_categories.find_best_matches
MOFC_find_best_matches(om_category, df, top_n) ==
    FirstN(SortDesc(MOFC_matches(om_category, df), <<>>), top_n)

\* the result dict of map_om_to_fsq_categories.main, which reads
\* top_matches[0] and then top_matches[j] for j in range(1, 5)
MOFC_result(om_cat, top_matches) ==
    [OM_Category |-> om_cat,
     Best_Match_FSQ_Category_ID |-> top_matches[1].FSQ_Category_ID,
     Confidence_Score |-> Round2(top_matches[1].key),
     Alternative_FSQ_Label |->
         [j \in 1..4 |-> top_matches[j + 1].FSQ_Category_Label],
     Alternative_Score |-> [j \in 1..4 |-> Round2(top_matches[j + 1].key)]]

\* the loop body of map_om_to_fsq_categories.main from top_matches on
MOFC_store(om_cat, top_matches) ==
    IF Len(top_matches) < 5 THEN Raise("IndexError")
    ELSE Emit(MOFC_result(om_cat, top_matches))

\* map_om_to_fsq_categories.main: both files read, om_categories made
MOFC_main_load ==
    /\ script = "map_om_to_fsq_categories"
    /\ ReadTables(MaxTargets, UniqueLabels(om_df'))

\* map_om_to_fsq_categories.main: one iteration of the mapping loop
MOFC_main_step ==
    /\ script = "map_om_to_fsq_categories"
    /\ run_pc = "mapping"
    /\ todo # <<>>
    /\ MOFC_store(Head(todo), MOFC_find_best_matches(Head(todo), fsq_df, 5))
    /\ LoopFrame

\* the rows in the order of their OM_Category, which is unique per row
SortedByCategory(rows) ==
    [k \in DOMAIN rows |->
        CHOOSE r \in Range(rows) :
            r.OM_Category = Sorted({x.OM_Category : x \in Range(rows)})[k]]

\* map_om_to_fsq_categories.main after the loop: sort_values('OM_Category'),
\* a column a frame without rows lacks, then the file is written
MOFC_main_finish ==
    /\ script = "map_om_to_fsq_categories"
    /\ run_pc = "mapping"
    /\ todo = <<>>
    /\ IF out_rows = <<>>
       THEN /\ run_pc' = "raised" /\ exception' = "KeyError"
            /\ UNCHANGED written
       ELSE /\ run_pc' = "done" /\ UNCHANGED exception
            /\ written' = Some(SortedByCategory(out_rows))
    /\ UNCHANGED <<script, fsq_df, om_df, todo, out_rows, amb_rows, harnessVars,
                   mapperVars>>

\* create_manual_mappings: the (Overture category, Foursquare ID) pairs
CMS_manual_mappings ==
    {<<"thai_restaurant", "4bf58dd8d48988d149941735">>,
     <<"chinese_restaurant", "4bf58dd8d48988d145941735">>,
     <<"italian_restaurant", "4bf58dd8d48988d110941735">>,
     <<"mexican_restaurant", "4bf58dd8d48988d1c1941735">>,
     <<"indian_restaurant", "4bf58dd8d48988d10f941735">>,
     <<"japanese_restaurant", "4bf58dd8d48988d111941735">>,
     <<"french_restaurant", "4bf58dd8d48988d10c941735">>,
     <<"american_restaurant", "4bf58dd8d48988d14e941735">>,
     <<"korean_restaurant", "4bf58dd8d48988d113941735">>,
     <<"vietnamese_restaurant", "4bf58dd8d48988d14a941735">>,
     <<"pizza_restaurant", "4bf58dd8d48988d1ca941735">>,
     <<"burger_restaurant", "4bf58dd8d48988d16c941735">>,
     <<"sandwich_shop", "4bf58dd8d48988d1c5941735">>,
     <<"coffee_shop", "4bf58dd8d48988d1e0931735">>,
     <<"bakery", "4bf58dd8d48988d16a941735">>,
     <<"bar", "4bf58dd8d48988d116941735">>,
     <<"restaurant", "4bf58dd8d48988d1c4941735">>,
     <<"fast_food_restaurant", "4bf58dd8d48988d16e941735">>,
     <<"general_dentistry", "4bf58dd8d48988d177941735">>,
     <<"hospital", "4bf58dd8d48988d196941735">>,
     <<"pharmacy", "4bf58dd8d48988d10f951735">>,
     <<"doctor", "4bf58dd8d48988d177941735">>,
     <<"dentist", "4bf58dd8d48988d177941735">>,
     <<"veterinarian", "4bf58dd8d48988d100951735">>,
     <<"urgent_care_clinic", "4bf58dd8d48988d196941735">>,
     <<"grocery_store", "4bf58dd8d48988d118951735">>,
     <<"convenience_store", "4bf58dd8d48988d1f6931735">>,
     <<"gas_station", "4bf58dd8d48988d113951735">>,
     <<"supermarket", "4bf58dd8d48988d118951735">>,
     <<"department_store", "4bf58dd8d48988d1f7931735">>,
     <<"clothing_store", "4bf58dd8d48988d103951735">>,
     <<"shoe_store", "4bf58dd8d48988d107951735">>,
     <<"bookstore", "4bf58dd8d48988d114951735">>,
     <<"hardware_store", "4bf58dd8d48988d112951735">>,
     <<"toy_store", "4bf58dd8d48988d1f3931735">>,
     <<"movie_theater", "4bf58dd8d48988d17f941735">>,
     <<"cinema", "4bf58dd8d48988d17f941735">>,
     <<"gym", "4bf58dd8d48988d175941735">>,
     <<"museum", "4bf58dd8d48988d181941735">>,
     <<"zoo", "4bf58dd8d48988d17b941735">>,
     <<"park", "4bf58dd8d48988d163941735">>,
     <<"library", "4bf58dd8d48988d12f941735">>,
     <<"casino", "4bf58dd8d48988d17c941735">>,
     <<"bowling_alley", "4bf58dd8d48988d1e4931735">>,
     <<"airport", "4bf58dd8d48988d1ed931735">>,
     <<"bus_station", "4bf58dd8d48988d1fe931735">>,
     <<"train_station", "4bf58dd8d48988d129941735">>,
     <<"parking", "4c38df4de52ce0d596b336e1">>,
     <<"bank", "4bf58dd8d48988d10a951735">>,
     <<"atm", "4bf58dd8d48988d10b951735">>,
     <<"post_office", "4bf58dd8d48988d172941735">>,
     <<"hotel", "4bf58dd8d48988d1fa931735">>,
     <<"school", "4bf58dd8d48988d13b941735">>,
     <<"university", "4bf58dd8d48988d1ae941735">>}

\* om_category in manual_mappings
HasManual(om_category) == \E p \in CMS_manual_mappings : p[1] = om_category

\* manual_mappings[om_category]
ManualId(om_category) ==
    (CHOOSE p \in CMS_manual_mappings : p[1] = om_category)[2]

RECURSIVE RowsWithId(_, _)
\* fsq_df[fsq_df['Category ID'] == id]
RowsWithId(df, id) ==
    IF df = <<>> THEN <<>>
    ELSE (IF Head(df).id = id THEN <<Head(df)>> ELSE <<>>) \o RowsWithId(Tail(df), id)

\* the dict find_best_matches builds for a target row, keyed for the sort
CMS_match_info(om_category, fsq_row, similarity_scores) ==
    [key |-> similarity_scores.composite_score,
     fsq_category_id |-> fsq_row.id,
     fsq_category_name |-> fsq_row.name,
     fsq_category_label |-> fsq_row.label,
     om_category |-> om_category,
     name_similarity |-> similarity_scores.name_similarity,
     label_similarity |-> similarity_scores.label_similarity,
     keyword_overlap |-> similarity_scores.keyword_overlap]

\* category_mapping_script.find_best_matches before the sort
CMS_matches(om_category, df) ==
    [i \in DOMAIN df |->
        CMS_match_info(om_category, df[i],
                       calculate_semantic_similarity(om_category, df[i].name,
                                                     df[i].label))]

\* category_mapping_script.find_best_matches
CMS_find_best_matches(om_category, df, top_n) ==
    FirstN(SortDesc(CMS_matches(om_category, df), <<>>), top_n)

\* the result dict of a manual mapping, from fsq_match.iloc[0]
CMS_manual_result(om_category, fsq_row) ==
    [om_category |-> om_category,
     fsq_category_id |-> fsq_row.id,
     fsq_category_name |-> fsq_row.name,
     fsq_category_label |-> fsq_row.label,
     mapping_method |-> "manual",
     confidence_score |-> Hundred]

\* the result dict of an automatic mapping, from best_matches[0]
CMS_automatic_result(om_category, best_match) ==
    [om_category |-> om_category,
     fsq_category_id |-> best_match.fsq_category_id,
     fsq_category_name |-> best_match.fsq_category_name,
     fsq_category_label |-> best_match.fsq_category_label,
     mapping_method |-> "automatic",
     confidence_score |-> best_match.key,
     name_similarity |-> best_match.name_similarity,
     label_similarity |-> best_match.label_similarity,
     keyword_overlap |-> best_match.keyword_overlap]

\* the loop body goes on with the next source and appends nothing
Skip ==
    /\ todo' = Tail(todo)
    /\ UNCHANGED <<out_rows, run_pc, exception>>

\* 'if best_matches:' of map_categories
CMS_store(om_category, best_matches) ==
    IF best_matches # <<>>
    THEN Emit(CMS_automatic_result(om_category, best_matches[1]))
    ELSE Skip

\* the automatic branch of the loop body
CMS_automatic(om_category) ==
    CMS_store(om_category, CMS_find_best_matches(om_category, fsq_df, 1))

\* as CMS_manual, with the automatic matching done whatever the table holds
CMS_manual_ignored(om_category, fsq_match) == CMS_automatic(om_category)

\* the manual branch of the loop body, fsq_match being the rows of the mapped ID
CMS_manual(om_category, fsq_match) ==
    IF fsq_match # <<>>
    THEN Emit(CMS_manual_result(om_category, fsq_match[1]))
    ELSE CMS_automatic(om_category)

\* category_mapping_script.map_categories: load_data returned the tables
CMS_load ==
    /\ script = "category_mapping_script"
    /\ ReadTables(MaxTargets, [i \in DOMAIN om_df' |-> om_df'[i].label])

\* category_mapping_script.map_categories: load_data caught an exception and
\* returned None, so map_categories returns without mapping or writing
CMS_load_failed ==
    /\ script = "category_mapping_script"
    /\ run_pc = "start"
    /\ run_pc' = "returned"
    /\ UNCHANGED <<script, fsq_df, om_df, todo, out_rows, written, amb_rows,
                   exception, harnessVars, mapperVars>>

\* category_mapping_script.map_categories: one iteration of the mapping loop
CMS_step ==
    /\ script = "category_mapping_script"
    /\ run_pc = "mapping"
    /\ todo # <<>>
    /\ IF HasManual(Head(todo))
       THEN CMS_manual(Head(todo), RowsWithId(fsq_df, ManualId(Head(todo))))
       ELSE CMS_automatic(Head(todo))
    /\ LoopFrame

\* category_mapping_script.map_categories after the loop: results_df written
CMS_finish ==
    /\ script = "category_mapping_script"
    /\ run_pc = "mapping"
    /\ todo = <<>>
    /\ written' = Some(out_rows)
    /\ run_pc' = "done"
    /\ UNCHANGED <<script, fsq_df, om_df, todo, out_rows, amb_rows, exception,
                   harnessVars, mapperVars>>

\* the whole-word spelling replacements of om_to_fsq_map.normalize_text, in
\* insertion order
OFM_replacements ==
    << <<"centre", "center">>, <<"theatre", "theater">>, <<"tyre", "tire">>,
       <<"tyres", "tires">>, <<"jewellery", "jewelry">>,
       <<"behaviour", "behavior">>, <<"barbeque", "barbecue">>,
       <<"boulangerie", "bakery">>, <<"shoppe", "shop">> >>

RECURSIVE ReplaceWord(_, _, _, _)
\* re.sub(rf"\b{old}\b", new, s), prev_word telling whether the character
\* before s is a word character
ReplaceWord(s, old, new, prev_word) ==
    IF Len(s) < Len(old) THEN s
    ELSE IF /\ ~prev_word
            /\ Take(s, Len(old)) = old
            /\ (Len(s) = Len(old) \/ ~IsWord(Char(s, Len(old) + 1)))
         THEN new \o ReplaceWord(Drop(s, Len(old)), old, new, TRUE)
         ELSE Char(s, 1) \o ReplaceWord(Drop(s, 1), old, new, IsWord(Char(s, 1)))

RECURSIVE OFM_ApplyReplacements(_, _)
OFM_ApplyReplacements(text, n) ==
    IF n > Len(OFM_replacements) THEN text
    ELSE OFM_ApplyReplacements(
             ReplaceWord(text, OFM_replacements[n][1], OFM_replacements[n][2],
                         FALSE), n + 1)

RECURSIVE OFM_PunctToSpace(_)
\* re.sub(r"[^a-z0-9\s]", " ", text)
OFM_PunctToSpace(s) ==
    IF s = "" THEN ""
    ELSE (IF \/ IsOneOf(Char(s, 1), LowerCase)
             \/ IsOneOf(Char(s, 1), Digits)
             \/ IsSpace(Char(s, 1))
          THEN Char(s, 1) ELSE " ") \o OFM_PunctToSpace(Drop(s, 1))

\* the separator replacements of om_to_fsq_map.normalize_text
OFM_Separators(text) ==
    Replace(Replace(Replace(Replace(text, "&", " and "), "/", " "), "_", " "),
            "-", " ")

\* the character U+2122 (trade mark sign) of a label; the text of the module
\* is ASCII, so the character is written as a caret, which no label here
\* contains in its own right
TradeMarkSign == "^"

RECURSIVE OFM_StripAccents(_)
\* unicodedata.normalize('NFKD', text).encode('ascii', 'ignore').decode('ascii'):
\* ASCII characters stay, the trade mark sign decomposes into "TM"
OFM_StripAccents(s) ==
    IF s = "" THEN ""
    ELSE (IF Char(s, 1) = TradeMarkSign THEN "TM" ELSE Char(s, 1))
             \o OFM_StripAccents(Drop(s, 1))

\* om_to_fsq_map.normalize_text
OFM_normalize_text(value) ==
    Join(" ", Split(OFM_PunctToSpace(
        OFM_ApplyReplacements(
            OFM_Separators(OFM_StripAccents(Lower(Strip(value)))), 1))))

RECURSIVE AfterLast(_, _)
\* the part of s behind the last occurrence of character c, s without one
AfterLast(s, c) ==
    IF \E i \in 1..Len(s) : Char(s, i) = c
    THEN AfterLast(Drop(s, CHOOSE i \in 1..Len(s) :
                              /\ Char(s, i) = c
                              /\ \A j \in 1..(i - 1) : Char(s, j) # c), c)
    ELSE s

\* om_to_fsq_map.extract_leaf_label
extract_leaf_label(category_label) ==
    IF category_label = "" THEN "" ELSE Strip(AfterLast(category_label, ">"))

\* the candidates load_fsq_categories appends for row idx: the full label and
\* the leaf label, when not empty and not the same
OFM_row_candidates(idx, full_norm, leaf_norm) ==
    (IF full_norm # "" THEN <<[text |-> full_norm, index |-> idx]>> ELSE <<>>)
    \o (IF leaf_norm # "" /\ leaf_norm # full_norm
        THEN <<[text |-> leaf_norm, index |-> idx]>> ELSE <<>>)

\* candidate_texts zipped with candidate_to_index, as load_fsq_categories
\* builds them
OFM_candidates(df) ==
    Flatten([i \in DOMAIN df |->
        OFM_row_candidates(i - 1, OFM_normalize_text(df[i].label),
                           OFM_normalize_text(extract_leaf_label(df[i].label)))])

\* om_to_fsq_primary of map_om_to_fsq
OFM_om_to_fsq_primary ==
    { <<"accommodation and lodging",
        {"travel and transportation", "community and government",
         "landmarks and outdoors"}>>,
      <<"food and dining", {"dining and drinking"}>>,
      <<"retail and shopping", {"retail"}>>,
      <<"healthcare and medical", {"health and medicine"}>>,
      <<"beauty and personal care",
        {"business and professional services", "health and medicine"}>>,
      <<"entertainment and recreation",
        {"arts and entertainment", "sports and recreation"}>>,
      <<"government and public services", {"community and government"}>>,
      <<"transportation", {"travel and transportation"}>>,
      <<"home and garden", {"business and professional services", "retail"}>>,
      <<"professional services", {"business and professional services"}>>,
      <<"industrial and manufacturing", {"business and professional services"}>>,
      <<"community and social services", {"community and government"}>>,
      <<"religious and spiritual", {"community and government"}>>,
      <<"education and learning", {"community and government"}>>,
      <<"natural features and outdoor", {"landmarks and outdoors"}>>,
      <<"automotive",
        {"business and professional services", "retail",
         "travel and transportation"}>>,
      <<"other", {}>> }

\* the (primary, secondary) pairs that narrow accommodation and lodging
OFM_lodging_pairs ==
    { <<"travel and transportation", "lodging">>,
      <<"travel and transportation", "rv park">>,
      <<"community and government", "housing authority">>,
      <<"community and government", "residential building">>,
      <<"community and government", "housing development">>,
      <<"community and government", "organization">>,
      <<"landmarks and outdoors", "campground">> }

\* om_to_fsq_primary.get(simp, set()), with the business-to-business addition
OFM_allowed_primaries(simp, updated) ==
    UNION {p[2] : p \in {p \in OFM_om_to_fsq_primary : p[1] = simp}}
    \cup (IF Contains("business to business", updated) \/ updated = "b2b"
          THEN {"business and professional services"} ELSE {})

\* the union of fsq_primary_to_indices over the allowed primaries
OFM_primary_indices(df, allowed_primaries) ==
    {i - 1 : i \in {i \in DOMAIN df :
                      OFM_normalize_text(df[i].primary) \in allowed_primaries}}

\* the union of fsq_secondary_to_indices over the lodging pairs
OFM_narrowed(df) ==
    {i - 1 : i \in {i \in DOMAIN df :
                      <<OFM_normalize_text(df[i].primary),
                        OFM_normalize_text(df[i].secondary)>> \in OFM_lodging_pairs}}

\* the end of allowed_indices_for_om: indices narrowed for lodging
OFM_narrow(simp, indices, narrowed) ==
    IF simp = "accommodation and lodging" /\ narrowed # {}
    THEN indices \cap narrowed
    ELSE indices

\* allowed_indices_for_om; the empty set stands for None, which the code
\* returns exactly when its set is empty
OFM_allowed_indices(df, om_simplified, om_updated) ==
    OFM_narrow(OFM_normalize_text(om_simplified),
               OFM_primary_indices(df,
                   OFM_allowed_primaries(OFM_normalize_text(om_simplified),
                                         OFM_normalize_text(om_updated))),
               OFM_narrowed(df))

RECURSIVE OFM_filtered(_, _)
\* the candidates of the allowed rows
OFM_filtered(candidates, allowed) ==
    IF candidates = <<>> THEN <<>>
    ELSE (IF Head(candidates).index \in allowed THEN <<Head(candidates)>> ELSE <<>>)
             \o OFM_filtered(Tail(candidates), allowed)

\* search_texts zipped with search_map, from the filtered candidates
OFM_search_or_all(candidates, filtered) ==
    IF filtered # <<>> THEN filtered ELSE candidates

\* as OFM_search, with allowed_fsq_indices ignored
OFM_search_unrestricted(candidates, allowed) == candidates

\* search_texts zipped with search_map of choose_best_matches
OFM_search(candidates, allowed) ==
    IF allowed # {}
    THEN OFM_search_or_all(candidates, OFM_filtered(candidates, allowed))
    ELSE candidates

\* scores rapidfuzz's fuzz.WRatio may give a query and a candidate text; the
\* library is not part of the repository, a call yields any of them
WRatioSamples == {85, 86, 100}

\* process.extract(query, search_texts, scorer=fuzz.WRatio, limit=limit * 3),
\* score[k] being the score of search text k: best scores first
OFM_extract(search, score, limit) ==
    FirstN(SortDesc([k \in DOMAIN search |->
                        [key |-> Rat(score[k], 1), text |-> search[k].text,
                         fsq_idx |-> search[k].index]], <<>>), limit)

RECURSIVE OFM_regroup(_, _)
\* grouped[fsq_idx] = (score, cand_text) for result r, the dict keeping the
\* position of a key it has
OFM_regroup(grouped, r) ==
    IF grouped = <<>> THEN <<r>>
    ELSE IF Head(grouped).fsq_idx = r.fsq_idx
         THEN (IF RLt(Head(grouped).key, r.key) THEN <<r>> ELSE <<Head(grouped)>>)
                  \o Tail(grouped)
         ELSE <<Head(grouped)>> \o OFM_regroup(Tail(grouped), r)

RECURSIVE OFM_grouped(_, _)
\* the loop of choose_best_matches over results
OFM_grouped(results, grouped) ==
    IF results = <<>> THEN grouped
    ELSE OFM_grouped(Tail(results), OFM_regroup(grouped, Head(results)))

\* choose_best_matches, given the scores of the search texts
OFM_choose_best_matches(search, score, limit) ==
    FirstN(SortDesc(OFM_grouped(OFM_extract(search, score, limit * 3), <<>>),
                    <<>>), limit)

RECURSIVE OFM_best(_, _)
\* the loop of map_om_to_fsq over top: the first entry with the highest score
OFM_best(top, best) ==
    IF top = <<>> THEN best
    ELSE IF best = None \/ RLt(best[1].key, Head(top).key)
         THEN OFM_best(Tail(top), Some(Head(top)))
         ELSE OFM_best(Tail(top), best)

\* --threshold of om_to_fsq_map.main
Threshold == 86

\* out_row of map_om_to_fsq
OFM_out_row(om_row, df, top, best) ==
    [OM_CATEGORY_LABEL |-> om_row.label,
     FSQ_CATEGORY_ID |-> df[best.fsq_idx + 1].id,
     MATCH_SCORE |-> best.key,
     MATCHED_TEXT |-> best.text,
     ALTERNATES |-> [k \in DOMAIN top |->
                        [id |-> df[top[k].fsq_idx + 1].id, score |-> top[k].key]]]

\* writer.writerow(out_row), and amb_writer.writerow(out_row) below threshold
OFM_write(out_row) ==
    /\ written' = Some(Append(written[1], out_row))
    /\ amb_rows' = IF RLt(out_row.MATCH_SCORE, Rat(Threshold, 1))
                   THEN Append(amb_rows, out_row) ELSE amb_rows

\* 'if best_fsq_idx is None: continue', else the row is written
OFM_store(om_row, top, best) ==
    IF best = None THEN UNCHANGED <<written, amb_rows>>
    ELSE OFM_write(OFM_out_row(om_row, fsq_df, top, best[1]))

\* the loop body of map_om_to_fsq from top on
OFM_record(om_row, top) == OFM_store(om_row, top, OFM_best(top, None))

\* the loop body of map_om_to_fsq for a row with a non-empty query, over the
\* search texts of the row
OFM_match(om_row, search) ==
    \E score \in [DOMAIN search -> WRatioSamples] :
        OFM_record(om_row, OFM_choose_best_matches(search, score, 5))

\* longest target table and longest source table a run of om_to_fsq_map may
\* read
MaxFuzzTargets == 1

MaxFuzzSources == 1

\* om_to_fsq_map.map_om_to_fsq: the Foursquare file is loaded, the output
\* files are opened and their headers written
OFM_load ==
    /\ script = "om_to_fsq_map"
    /\ run_pc = "start"
    /\ fsq_df' \in TargetTables(MaxFuzzTargets)
    /\ om_df' \in SeqsUpTo(OmCatalog, MaxFuzzSources)
    /\ todo' = om_df'
    /\ written' = Some(<<>>)
    /\ run_pc' = "mapping"
    /\ UNCHANGED <<script, out_rows, amb_rows, exception, harnessVars, mapperVars>>

\* om_to_fsq_map.map_om_to_fsq: one row of the Overture file
OFM_step ==
    /\ script = "om_to_fsq_map"
    /\ run_pc = "mapping"
    /\ todo # <<>>
    /\ IF OFM_normalize_text(Head(todo).label) = ""
       THEN UNCHANGED <<written, amb_rows>>
       ELSE OFM_match(Head(todo),
                      OFM_search(OFM_candidates(fsq_df),
                                 OFM_allowed_indices(fsq_df, Head(todo).simplified,
                                                     Head(todo).updated)))
    /\ todo' = Tail(todo)
    /\ UNCHANGED <<script, fsq_df, om_df, out_rows, run_pc, exception,
                   harnessVars, mapperVars>>

\* om_to_fsq_map.map_om_to_fsq: the files are closed
OFM_finish ==
    /\ script = "om_to_fsq_map"
    /\ run_pc = "mapping"
    /\ todo = <<>>
    /\ run_pc' = "done"
    /\ UNCHANGED <<script, fsq_df, om_df, todo, out_rows, written, amb_rows,
                   exception, harnessVars, mapperVars>>

ScriptNames ==
    {"map_categories", "map_om_to_fsq_categories", "category_mapping_script",
     "om_to_fsq_map"}

\* a script is started
InitScripts ==
    /\ script \in ScriptNames
    /\ run_pc = "start" /\ exception = "none"
    /\ fsq_df = <<>> /\ om_df = <<>> /\ todo = <<>>
    /\ out_rows = <<>> /\ written = None /\ amb_rows = <<>>
    /\ IdleHarness
    /\ IdleMapper

NextScripts ==
    \/ MC_main_load
    \/ MC_main_step
    \/ MC_main_finish
    \/ MOFC_main_load
    \/ MOFC_main_step
    \/ MOFC_main_finish
    \/ CMS_load
    \/ CMS_load_failed
    \/ CMS_step
    \/ CMS_finish
    \/ OFM_load
    \/ OFM_step
    \/ OFM_finish

SpecScripts == InitScripts /\ [][NextScripts]_vars

-----------------------------------------------------------------------------
(* Inputs of the pure-function harness                                     *)

GenChars == <<"a", "b", " ", "_">>

RECURSIVE GenStrings(_)
\* every string over GenChars of length at most n
GenStrings(n) ==
    IF n = 0 THEN {""}
    ELSE LET S == GenStrings(n - 1)
         IN S \cup {s \o GenChars[i] : s \in S, i \in 1..Len(GenChars)}

SampleLabels ==
    {"Coffee Shop", "coffee_shop", "Pizza Restaurant", "pizza_place", "bank",
     "go go", "go-go go", "Arts & Crafts", "-", "!?", "the", "shop of art"}

Inputs == SampleLabels \cup GenStrings(MaxGenLen)

ScoreFns ==
    {"calculate_similarity_score", "map_categories.calculate_similarity",
     "map_om_to_fsq_categories.calculate_similarity"}

\* (Category Name, Category Label) of sample Foursquare rows
FsqSamples ==
    {<<"Retail", "Retail">>, <<"Florist", "Retail > Florist">>,
     <<"Bar", "Dining and Drinking > Bar">>, <<"Coffee Shop", "Cafe > Coffee Shop">>}

OmSamples == {"retail", "florist", "coffee_shop", "sports_bar", "the_bar", "a flower shop"}

-----------------------------------------------------------------------------
(* Harness: one call of a pure function on drawn arguments                 *)

InitScore ==
    /\ \/ fn \in ScoreFns /\ args \in Inputs \X Inputs
       \/ /\ fn = "calculate_semantic_similarity"
          /\ \E om \in Inputs \cup OmSamples, fsq \in FsqSamples :
                 args = <<om, fsq[1], fsq[2]>>
    /\ ret = None
    /\ IdleMapper
    /\ IdleScripts

Call_calculate_similarity_score ==
    /\ fn = "calculate_similarity_score"
    /\ ret = None
    /\ ret' = calculate_similarity_score(args[1], args[2])
    /\ UNCHANGED <<fn, args, mapperVars, scriptVars>>

Call_MC_calculate_similarity ==
    /\ fn = "map_categories.calculate_similarity"
    /\ ret = None
    /\ ret' = MC_calculate_similarity(args[1], args[2])
    /\ UNCHANGED <<fn, args, mapperVars, scriptVars>>

Call_MOFC_calculate_similarity ==
    /\ fn = "map_om_to_fsq_categories.calculate_similarity"
    /\ ret = None
    /\ ret' = MOFC_calculate_similarity(args[1], args[2])
    /\ UNCHANGED <<fn, args, mapperVars, scriptVars>>

Call_calculate_semantic_similarity ==
    /\ fn = "calculate_semantic_similarity"
    /\ ret = None
    /\ ret' = calculate_semantic_similarity(args[1], args[2], args[3])
    /\ UNCHANGED <<fn, args, mapperVars, scriptVars>>

NextScore ==
    \/ Call_calculate_similarity_score
    \/ Call_MC_calculate_similarity
    \/ Call_MOFC_calculate_similarity
    \/ Call_calculate_semantic_similarity

SpecScore == InitScore /\ [][NextScore]_vars

Returned(f) == fn = f /\ ret # None

-----------------------------------------------------------------------------
(* Claims about the scorers                                                *)

\* C6: calculate_similarity_score returns the maximum score 1.0 for every
\* pair of non-empty inputs whose normalize_text forms are identical.
C6_ExactMatchIsMax ==
    (/\ Returned("calculate_similarity_score")
     /\ args[1] # "" /\ args[2] # ""
     /\ CM_normalize_text(args[1]) = CM_normalize_text(args[2]))
        => ret = One

C6_Witness ==
    /\ Returned("calculate_similarity_score")
    /\ args = <<"Coffee Shop", "coffee_shop">>
    /\ ret = One

\* C7: calculate_similarity of map_categories.py and of its copy returns the
\* maximum score 100 whenever the two inputs have identical normalized text.
C7_ExactMatchIs100 ==
    (/\ (Returned("map_categories.calculate_similarity")
            \/ Returned("map_om_to_fsq_categories.calculate_similarity"))
     /\ MC_normalize_text(args[1]) = MC_normalize_text(args[2]))
        => ret = Hundred

\* C8: calculate_similarity_score returns a value in [0.0, 1.0] for all
\* inputs; the weighted sum, which can exceed 1, is clamped to 1.0.
C8_ScoreInUnitRange ==
    Returned("calculate_similarity_score") => RLe(Zero, ret) /\ RLe(ret, One)

\* the clamp acted: the texts differ after normalisation and score 1.0
C8_Witness ==
    /\ Returned("calculate_similarity_score")
    /\ args = <<"go go", "go-go go">>
    /\ CM_normalize_text(args[1]) # CM_normalize_text(args[2])
    /\ ret = One

\* C9: the composite_score returned by calculate_semantic_similarity stays
\* within the 0-100 score range for all inputs.
C9_CompositeInRange ==
    Returned("calculate_semantic_similarity")
        => RLe(Zero, ret.composite_score) /\ RLe(ret.composite_score, Hundred)

\* C10: calculate_similarity of map_categories.py and of its copy returns the
\* minimum score 0 when the source label is empty and the target is not.
C10_EmptySourceScoresZero ==
    (/\ (Returned("map_categories.calculate_similarity")
            \/ Returned("map_om_to_fsq_categories.calculate_similarity"))
     /\ args[1] = ""
     /\ args[2] # "")
        => ret = Zero


-----------------------------------------------------------------------------
(* Claims about the script runs                                            *)

\* the source labels of the rows written by a finished run
WrittenSources ==
    IF script = "category_mapping_script"
    THEN {written[1][k].om_category : k \in DOMAIN written[1]}
    ELSE {written[1][k].OM_CATEGORY_LABEL : k \in DOMAIN written[1]}

\* C4: when the Foursquare table is empty, a finished run of
\* category_mapping_script.map_categories or of om_to_fsq_map.map_om_to_fsq
\* has written a row for every source label it processed (for om_to_fsq_map,
\* every label with a non-empty normalized form).
C4_EmptyTargetsKeepSources ==
    (/\ script \in {"category_mapping_script", "om_to_fsq_map"}
     /\ run_pc = "done"
     /\ fsq_df = <<>>)
        => \A i \in DOMAIN om_df :
               \/ om_df[i].label \in WrittenSources
               \/ /\ script = "om_to_fsq_map"
                  /\ OFM_normalize_text(om_df[i].label) = ""

\* C5: a run of map_categories.main or of map_om_to_fsq_categories.main over a
\* non-empty source list raises no exception, whatever the number of target
\* rows, and when it is done it has written one row per unique source category.
C5_RunCompletes ==
    (/\ script \in {"map_categories", "map_om_to_fsq_categories"}
     /\ om_df # <<>>)
        => /\ exception = "none"
           /\ run_pc = "done" => Len(written[1]) = Len(UniqueLabels(om_df))

-----------------------------------------------------------------------------
(* Claims about labels that normalize to the empty string                  *)

\* C11: calculate_similarity_score returns 0.0 whenever either argument
\* normalizes to the empty string, raw labels made only of punctuation
\* included.
C11_EmptyNormalizedScoresZero ==
    (/\ Returned("calculate_similarity_score")
     /\ \/ CM_normalize_text(args[1]) = ""
        \/ CM_normalize_text(args[2]) = "")
        => ret = Zero

-----------------------------------------------------------------------------
(* map_om_to_fsq.py: normalize                                             *)

RECURSIVE MOF_Underscores(_)
\* UNDERSCORES.sub(" ", t): every run of underscores becomes one space
MOF_Underscores(t) ==
    IF t = "" THEN ""
    ELSE IF Char(t, 1) # "_" THEN Char(t, 1) \o MOF_Underscores(Drop(t, 1))
    ELSE IF Len(t) >= 2 /\ Char(t, 2) = "_" THEN MOF_Underscores(Drop(t, 1))
    ELSE " " \o MOF_Underscores(Drop(t, 1))

RECURSIVE MOF_Ampersand(_, _)
\* AMPERSAND.sub(" and ", t) for AMPERSAND = \b(and|\&)\b, prev_word telling
\* whether the character before t is a word character
MOF_Ampersand(t, prev_word) ==
    IF t = "" THEN ""
    ELSE IF /\ ~prev_word
            /\ Len(t) >= 3 /\ Take(t, 3) = "and"
            /\ (Len(t) = 3 \/ ~IsWord(Char(t, 4)))
         THEN " and " \o MOF_Ampersand(Drop(t, 3), TRUE)
    ELSE IF /\ prev_word
            /\ Char(t, 1) = "&"
            /\ Len(t) >= 2 /\ IsWord(Char(t, 2))
         THEN " and " \o MOF_Ampersand(Drop(t, 1), FALSE)
    ELSE Char(t, 1) \o MOF_Ampersand(Drop(t, 1), IsWord(Char(t, 1)))

RECURSIVE MOF_NonAlnum(_)
\* NON_ALNUM.sub(" ", t) for NON_ALNUM = [^a-z0-9 &]
MOF_NonAlnum(t) ==
    IF t = "" THEN ""
    ELSE (IF \/ IsOneOf(Char(t, 1), LowerCase)
             \/ IsOneOf(Char(t, 1), Digits)
             \/ Char(t, 1) = " "
             \/ Char(t, 1) = "&"
          THEN Char(t, 1) ELSE " ") \o MOF_NonAlnum(Drop(t, 1))

\* normalize, for a text that is not None
MOF_normalize_str(text) ==
    Join(" ", Split(MOF_NonAlnum(
        MOF_Ampersand(MOF_Underscores(Lower(Strip(text))), FALSE))))

\* map_om_to_fsq.normalize; text is None or Some(string)
MOF_normalize(text) ==
    IF text = None THEN "" ELSE MOF_normalize_str(text[1])

-----------------------------------------------------------------------------
(* Harness: one call of a normalizer on a drawn label                      *)

NormalizerFns ==
    {"preprocess_category_name", "om_to_fsq_map.normalize_text",
     "map_om_to_fsq.normalize", "CategoryMapper.normalize_text",
     "map_categories.normalize_text"}

NormSamples ==
    {"the_bar", "coffee-shop", "an_art store", "Arts & Crafts", "a&b", "R&D",
     "sand and_gravel", " Tyre  Centre ", "centre" \o TradeMarkSign,
     "Bed+Breakfast", "a/b", "b &", "x__y"}

NormInputs == {None} \cup {Some(s) : s \in Inputs \cup NormSamples}

InitNormalize ==
    /\ fn \in NormalizerFns
    /\ \E text \in NormInputs : args = <<text>>
    /\ ret = None
    /\ IdleMapper
    /\ IdleScripts

\* pd.isna(name) / `is None` returns "" before anything else
Call_preprocess_category_name ==
    /\ fn = "preprocess_category_name"
    /\ ret = None
    /\ ret' = Some(IF args[1] = None THEN ""
                   ELSE preprocess_category_name(args[1][1]))
    /\ UNCHANGED <<fn, args, mapperVars, scriptVars>>

Call_OFM_normalize_text ==
    /\ fn = "om_to_fsq_map.normalize_text"
    /\ ret = None
    /\ ret' = Some(IF args[1] = None THEN ""
                   ELSE OFM_normalize_text(args[1][1]))
    /\ UNCHANGED <<fn, args, mapperVars, scriptVars>>

Call_MOF_normalize ==
    /\ fn = "map_om_to_fsq.normalize"
    /\ ret = None
    /\ ret' = Some(MOF_normalize(args[1]))
    /\ UNCHANGED <<fn, args, mapperVars, scriptVars>>

Call_CM_normalize_text ==
    /\ fn = "CategoryMapper.normalize_text"
    /\ ret = None
    /\ ret' = Some(IF args[1] = None THEN ""
                   ELSE CM_normalize_text(args[1][1]))
    /\ UNCHANGED <<fn, args, mapperVars, scriptVars>>

Call_MC_normalize_text ==
    /\ fn = "map_categories.normalize_text"
    /\ ret = None
    /\ ret' = Some(IF args[1] = None THEN ""
                   ELSE MC_normalize_text(args[1][1]))
    /\ UNCHANGED <<fn, args, mapperVars, scriptVars>>

NextNormalize ==
    \/ Call_preprocess_category_name
    \/ Call_OFM_normalize_text
    \/ Call_MOF_normalize
    \/ Call_CM_normalize_text
    \/ Call_MC_normalize_text

SpecNormalize == InitNormalize /\ [][NextNormalize]_vars

-----------------------------------------------------------------------------
(* Claims about the normalizers                                            *)

\* C12: preprocess_category_name is idempotent: applied to its own result
\* it returns that result.
C12_PreprocessIdempotent ==
    Returned("preprocess_category_name")
        => preprocess_category_name(ret[1]) = ret[1]

\* C13: om_to_fsq_map.normalize_text, map_om_to_fsq.normalize,
\* CategoryMapper.normalize_text and map_categories.normalize_text are
\* idempotent: each, applied to its own result, returns that result.
C13_NormalizersIdempotent ==
    /\ Returned("om_to_fsq_map.normalize_text")
           => OFM_normalize_text(ret[1]) = ret[1]
    /\ Returned("map_om_to_fsq.normalize")
           => MOF_normalize(ret) = ret[1]
    /\ Returned("CategoryMapper.normalize_text")
           => CM_normalize_text(ret[1]) = ret[1]
    /\ Returned("map_categories.normalize_text")
           => MC_normalize_text(ret[1]) = ret[1]

\* the characters [a-z0-9 ]
IsLowerAlnumOrSpace(c) ==
    IsOneOf(c, LowerCase) \/ IsOneOf(c, Digits) \/ c = " "

\* C14: the result of map_om_to_fsq.normalize has only characters of
\* [a-z0-9 ], no leading, trailing or doubled space, and is "" for None.
C14_NormalizeAlphabet ==
    Returned("map_om_to_fsq.normalize")
        => /\ \A i \in 1..Len(ret[1]) : IsLowerAlnumOrSpace(Char(ret[1], i))
           /\ Strip(ret[1]) = ret[1]
           /\ ~Contains("  ", ret[1])
           /\ args[1] = None => ret[1] = ""

-----------------------------------------------------------------------------
(* Claims about the components of calculate_similarity                     *)

\* C15: the keyword-overlap component of calculate_similarity (in
\* map_categories.py and in its copy) has the same value when the source
\* label and the target label are swapped.
C15_KeywordOverlapSymmetric ==
    /\ Returned("map_categories.calculate_similarity")
           => MC_keyword_overlap(
                  MC_extract_keywords(MC_normalize_text(args[1])),
                  MC_extract_keywords(MC_normalize_text(args[2])))
              = MC_keyword_overlap(
                  MC_extract_keywords(MC_normalize_text(args[2])),
                  MC_extract_keywords(MC_normalize_text(args[1])))
    /\ Returned("map_om_to_fsq_categories.calculate_similarity")
           => MC_keyword_overlap(
                  MOFC_extract_keywords(MC_normalize_text(args[1])),
                  MOFC_extract_keywords(MC_normalize_text(args[2])))
              = MC_keyword_overlap(
                  MOFC_extract_keywords(MC_normalize_text(args[2])),
                  MOFC_extract_keywords(MC_normalize_text(args[1])))

-----------------------------------------------------------------------------
(* Claims about ties for the top score                                     *)

\* the two selectors that scan all targets: a CategoryMapper run, or a call
\* of map_categories.find_best_matches on a source label and a target table
InitFindBest ==
    /\ fn = "map_categories.find_best_matches"
    /\ \E om_row \in OmCatalog, df \in TargetTables(MaxTargets) :
           args = <<om_row.label, df>>
    /\ ret = None
    /\ IdleMapper
    /\ IdleScripts

\* find_best_matches(om_category, fsq_df) with the default top_n=3
Call_MC_find_best_matches ==
    /\ fn = "map_categories.find_best_matches"
    /\ ret = None
    /\ ret' = Some(MC_find_best_matches(args[1], args[2], 3))
    /\ UNCHANGED <<fn, args, mapperVars, scriptVars>>

InitSelectors == InitMapper \/ InitFindBest

NextSelectors == NextMapper \/ Call_MC_find_best_matches

SpecSelectors == InitSelectors /\ [][NextSelectors]_vars

\* the Overture indices claimed by the rows before row k of mapping_results
ClaimedBefore(k) ==
    {mapping_results[m].overture_index[1] :
        m \in {m \in 1..(k - 1) : mapping_results[m].overture_category # None}}

\* the group id whose name row r carries
GroupOf(r) == CHOOSE g \in GroupIds : semantic_groups_table[g].name = r.semantic_group

\* the score the pass that made row r gives Overture row i (0-based)
PassScore(r, i) ==
    IF r.match_type = "semantic_group"
    THEN calculate_similarity_score(r.foursquare_name, overture_data[i + 1])
    ELSE DirectScore([name |-> r.foursquare_name, label |-> r.foursquare_label],
                     overture_data[i + 1])

\* the Overture indices the scan that made row k could still choose from
Candidates(k) ==
    IF mapping_results[k].match_type = "semantic_group"
    THEN {c.index : c \in Range(semantic_groups[GroupOf(mapping_results[k])]
                                    .overture_categories)} \ ClaimedBefore(k)
    ELSE Indices(overture_data) \ ClaimedBefore(k)

\* the targets of the scan for row k that tie with the chosen one
TiedWith(k) ==
    {i \in Candidates(k) :
        PassScore(mapping_results[k], i) = mapping_results[k].similarity_score}

\* the position in df of the first row with the highest score for om_cat
FirstBest(om_cat, df) ==
    LET m == MC_matches(om_cat, df)
    IN CHOOSE i \in DOMAIN df :
           /\ \A j \in DOMAIN df : RLe(m[j].key, m[i].key)
           /\ \A j \in 1..(i - 1) : RLt(m[j].key, m[i].key)

\* C18: when several targets tie for the top score of a source, both
\* selectors choose the one that comes first in the target table: after a
\* run, no target the scan could choose, tied with the chosen one, comes
\* before it (CategoryMapper.find_best_matches), and the first match
\* returned is the first target with the highest score
\* (map_categories.find_best_matches).
C18_TieGoesToFirst ==
    /\ pc = "done" =>
           \A k \in MatchedRows :
               \A i \in Candidates(k) :
                   i < mapping_results[k].overture_index[1]
                       => PassScore(mapping_results[k], i)
                              # mapping_results[k].similarity_score
    /\ (Returned("map_categories.find_best_matches") /\ args[2] # <<>>) =>
           ret[1][1].category_id = args[2][FirstBest(args[1], args[2])].id

\* a finished CategoryMapper run in which the target of a row was chosen
\* among several tied ones
C18_Witness ==
    /\ pc = "done"
    /\ \E k \in MatchedRows : Cardinality(TiedWith(k)) >= 2

-----------------------------------------------------------------------------
(* filter_needs_review.py                                                  *)

UpperChar(c) ==
    IF IsOneOf(c, LowerCase)
    THEN Char(UpperCase, CHOOSE i \in 1..Len(LowerCase) : Char(LowerCase, i) = c)
    ELSE c

RECURSIVE Upper(_)
\* str.upper()
Upper(s) == IF s = "" THEN "" ELSE UpperChar(Char(s, 1)) \o Upper(Drop(s, 1))

\* row.get(key) of a row csv.DictReader made: Some(text) for a field of the
\* row, None for a column the row is too short for or the file does not have
RowGet(row, key) == IF key \in DOMAIN row THEN row[key] ELSE None

\* (value or '')
OrEmpty(value) == IF value = None THEN "" ELSE value[1]

\* as FNR_flagged, comparing without .upper()
FNR_flagged_exact(row) == OrEmpty(RowGet(row, "NEEDS_REVIEW")) = "TRUE"

\* (row.get('NEEDS_REVIEW') or '').upper() == 'TRUE'
FNR_flagged(row) == Upper(OrEmpty(RowGet(row, "NEEDS_REVIEW"))) = "TRUE"

\* longest mapping file the filter reads, in rows
MaxReviewRows == 2

\* the header row of a mapping file, its columns cut down to three
ReviewHeader == <<"OM_CATEGORY_LABEL", "BEST_SCORE", "NEEDS_REVIEW">>

\* NEEDS_REVIEW fields of sample rows; None is a row that ends before it
ReviewFlags ==
    {Some("TRUE"), Some("true"), Some("True"), Some("FALSE"), Some(""),
     Some(" TRUE"), None}

\* sample rows of a mapping file with the column, as csv.DictReader reads them
ReviewRows ==
    {[OM_CATEGORY_LABEL |-> Some("hotel"), BEST_SCORE |-> Some("80.0"),
      NEEDS_REVIEW |-> flag] : flag \in ReviewFlags}

\* sample rows of a file without the column
UnflaggedRows ==
    {[OM_CATEGORY_LABEL |-> Some("hotel"), BEST_SCORE |-> Some("TRUE")]}

\* the mapping files the filter is run on: with the NEEDS_REVIEW column,
\* without it, and a file with no header row at all
ReviewFiles ==
    {[fieldnames |-> ReviewHeader, rows |-> rows] :
        rows \in SeqsUpTo(ReviewRows, MaxReviewRows)}
    \cup {[fieldnames |-> SubSeq(ReviewHeader, 1, 2), rows |-> rows] :
             rows \in SeqsUpTo(UnflaggedRows, MaxReviewRows)}
    \cup {[fieldnames |-> None, rows |-> <<>>]}

\* the script starts with the mapping file in place
InitFilter ==
    /\ script = "filter_needs_review"
    /\ run_pc = "start" /\ exception = "none"
    /\ \E file \in ReviewFiles : written = Some(file)
    /\ fsq_df = <<>> /\ om_df = <<>> /\ todo = <<>>
    /\ out_rows = <<>> /\ amb_rows = <<>>
    /\ IdleHarness
    /\ IdleMapper

\* both files are opened and the header is written; with no header row in the
\* input, fieldnames is None and writeheader raises
FNR_open ==
    /\ script = "filter_needs_review"
    /\ run_pc = "start"
    /\ amb_rows' = [fieldnames |-> written[1].fieldnames, rows |-> <<>>]
    /\ IF written[1].fieldnames = None
       THEN run_pc' = "raised" /\ exception' = "TypeError" /\ UNCHANGED todo
       ELSE run_pc' = "filtering" /\ todo' = written[1].rows /\ UNCHANGED exception
    /\ UNCHANGED <<script, fsq_df, om_df, out_rows, written, harnessVars,
                   mapperVars>>

\* one row of the reader
FNR_step ==
    /\ script = "filter_needs_review"
    /\ run_pc = "filtering"
    /\ todo # <<>>
    /\ amb_rows' = IF FNR_flagged(Head(todo))
                   THEN [amb_rows EXCEPT !.rows = Append(@, Head(todo))]
                   ELSE amb_rows
    /\ todo' = Tail(todo)
    /\ UNCHANGED <<script, fsq_df, om_df, out_rows, written, run_pc, exception,
                   harnessVars, mapperVars>>

\* the reader is exhausted and the files are closed
FNR_close ==
    /\ script = "filter_needs_review"
    /\ run_pc = "filtering"
    /\ todo = <<>>
    /\ run_pc' = "done"
    /\ UNCHANGED <<script, fsq_df, om_df, todo, out_rows, written, amb_rows,
                   exception, harnessVars, mapperVars>>

NextFilter ==
    \/ FNR_open
    \/ FNR_step
    \/ FNR_close

SpecFilter == InitFilter /\ [][NextFilter]_vars

-----------------------------------------------------------------------------
(* Claims about the review file                                            *)

\* the NEEDS_REVIEW value of the row is TRUE in some spelling of its letters
SaysTrue(row) ==
    /\ "NEEDS_REVIEW" \in DOMAIN row
    /\ row.NEEDS_REVIEW # None
    /\ Lower(row.NEEDS_REVIEW[1]) = "true"

\* C17: a finished run of filter_needs_review.py has written exactly the
\* rows of the mapping file whose NEEDS_REVIEW value is TRUE in any letter
\* case, in input order, under the input's header.
C17_ExactlyFlaggedRows ==
    (script = "filter_needs_review" /\ run_pc = "done")
        => /\ amb_rows.fieldnames = written[1].fieldnames
           /\ amb_rows.rows = SelectSeq(written[1].rows, LAMBDA row : SaysTrue(row))

\* a finished run that kept a row flagged in lower case and dropped the row
\* before it
C17_Witness ==
    /\ script = "filter_needs_review" /\ run_pc = "done"
    /\ Len(written[1].rows) = 2
    /\ ~SaysTrue(written[1].rows[1])
    /\ RowGet(written[1].rows[2], "NEEDS_REVIEW") = Some("true")
    /\ amb_rows.rows = <<written[1].rows[2]>>

-----------------------------------------------------------------------------
(* The built-in set of CPython 3.11 holding small non-negative ints        *)
(* (Objects/setobject.c; the hash of such an int is the int itself).       *)
(* A table is a sequence of slots, slot j of the C array at position j+1;  *)
(* an unused slot holds NoKey.                                             *)

NoKey == -1

\* LINEAR_PROBES of setobject.c
LinearProbes == 9

\* 2^PERTURB_SHIFT of setobject.c
PerturbStep == 32

\* PySet_MINSIZE
SetMinSize == 8

\* number of slots after slot i that are probed before the next jump
ProbesAt(i, mask) == IF i + LinearProbes <= mask THEN LinearProbes ELSE 0

\* the slots i..i+probes that are unused or hold key
SlotsFor(table, key, i, probes) ==
    {j \in i..(i + probes) : table[j + 1] = NoKey \/ table[j + 1] = key}

RECURSIVE SetLookup(_, _, _, _, _)
\* set_lookkey: the slot that holds key, or the unused slot it goes to
SetLookup(table, mask, key, i, perturb) ==
    IF SlotsFor(table, key, i, ProbesAt(i, mask)) # {}
    THEN CHOOSE j \in SlotsFor(table, key, i, ProbesAt(i, mask)) :
             \A k \in SlotsFor(table, key, i, ProbesAt(i, mask)) : j <= k
    ELSE SetLookup(table, mask, key,
                   (i * 5 + 1 + (perturb \div PerturbStep)) % (mask + 1),
                   perturb \div PerturbStep)

\* the slot of key in table
SetSlot(table, key) ==
    SetLookup(table, Len(table) - 1, key, key % Len(table), key)

\* table with key stored in its slot
SetStore(table, key) == [table EXCEPT ![SetSlot(table, key) + 1] = key]

RECURSIVE SetNewSize(_, _)
\* the table size set_table_resize chooses: the first power of two above minused
SetNewSize(newsize, minused) ==
    IF newsize <= minused THEN SetNewSize(newsize * 2, minused) ELSE newsize

\* iteration over the set: the used slots in table order
SetIter(table) == SelectSeq(table, LAMBDA key : key # NoKey)

RECURSIVE SetReinsert(_, _)
\* set_table_resize: the keys of the old table, in its slot order, are put
\* into the new table
SetReinsert(keys, table) ==
    IF keys = <<>> \/ Len(table) = 0 THEN table
    ELSE SetReinsert(Tail(keys), SetStore(table, Head(keys)))

RECURSIVE UnusedSlots(_)
\* a table of n unused slots, n a power of two
UnusedSlots(n) ==
    IF n = 1 THEN <<NoKey>> ELSE UnusedSlots(n \div 2) \o UnusedSlots(n \div 2)

\* number of used slots
SetFill(table) == Cardinality({j \in DOMAIN table : table[j] # NoKey})

\* the table after growing, when fill*5 >= mask*3
SetGrown(table) ==
    IF SetFill(table) * 5 < (Len(table) - 1) * 3 THEN table
    ELSE SetReinsert(SetIter(table),
                     UnusedSlots(SetNewSize(SetMinSize, SetFill(table) * 4)))

\* set.add(key)
SetAdd(table, key) ==
    IF table[SetSlot(table, key) + 1] = key THEN table
    ELSE SetGrown(SetStore(table, key))

\* set()
EmptySet == UnusedSlots(SetMinSize)

RECURSIVE SetAddAll(_, _)
\* the table after adding the keys of the sequence one by one
SetAddAll(table, keys) ==
    IF keys = <<>> \/ Len(table) = 0 THEN table
    ELSE SetAddAll(SetAdd(table, Head(keys)), Tail(keys))

-----------------------------------------------------------------------------
(* map_om_to_fsq.py: shortlists, re-ranking and the mapping file           *)

\* the row load_fsq_categories keeps for a row of the Foursquare file
MOF_fsq_row(row) ==
    [id |-> row.id, label |-> row.label,
     primary |-> row.primary, secondary |-> row.secondary,
     norm |-> MOF_normalize(Some(row.label)),
     norm_leaf |-> MOF_normalize(Some(Strip(LastPart(row.label))))]

\* the rows of the file that have a label
MOF_labelled(file) == SelectSeq(file, LAMBDA row : row.label # "")

\* load_fsq_categories: rows without a label are skipped
MOF_load_fsq_categories(file) ==
    [i \in DOMAIN MOF_labelled(file) |-> MOF_fsq_row(MOF_labelled(file)[i])]

\* load_unique_om_labels: the non-empty labels, each once, in file order
MOF_load_unique_om_labels(file) ==
    Unique(SelectSeq(file, LAMBDA label : label # ""), {})

\* the greatest of a non-empty set of scores
RMaxOf(values) == CHOOSE x \in values : \A y \in values : RLe(y, x)

\* the positions of keys that hold the value
PositionsOf(keys, value) ==
    SelectSeq([i \in DOMAIN keys |-> i], LAMBDA i : keys[i] = value)

RECURSIVE StableDescFrom(_, _)
StableDescFrom(keys, values) ==
    IF values = {} THEN <<>>
    ELSE PositionsOf(keys, RMaxOf(values))
             \o StableDescFrom(keys, values \ {RMaxOf(values)})

\* the positions of keys in the order of a stable descending sort: greater
\* keys first, equal keys in the order they have in the list
StableDesc(keys) == StableDescFrom(keys, Range(keys))

\* positions counted from 0, as list indices are
ZeroBased(positions) == [k \in DOMAIN positions |-> positions[k] - 1]

\* the list in the order given by a sequence of its positions
Reordered(list, positions) == [k \in DOMAIN positions |-> list[positions[k]]]

\* the floor of the shortlist size in max(50, topn * 10)
ShortlistFloor == 50

\* limit of both process.extract calls
MOF_limit(topn) ==
    IF topn * 10 > ShortlistFloor THEN topn * 10 ELSE ShortlistFloor

\* process.extract(q, choices, scorer, limit) given the scorer's value for
\* each choice: the idx fields of the result, best choice first
MOF_extract(scores, limit) == ZeroBased(FirstN(StableDesc(scores), limit))

\* fuzz.token_set_ratio(q, text) for each text of a column
MOF_column_scores(texts, token_set) ==
    [i \in DOMAIN texts |-> Rat(token_set[texts[i]], 1)]

\* combined_score, from the values the two scorers have for the full and the
\* leaf text
MOF_combined_score(token_set, partial, candidate, candidate_leaf) ==
    Rat(35 * token_set[candidate] + 25 * partial[candidate]
          + 25 * token_set[candidate_leaf] + 15 * partial[candidate_leaf], 100)

\* the set built from the idx fields of both shortlists
MOF_indices(shortlist_full, shortlist_leaf) ==
    SetAddAll(SetAddAll(EmptySet, shortlist_full), shortlist_leaf)

\* rescored before the sort: one pair per idx, in the set's iteration order
MOF_rescored(order, fsq_rows, token_set, partial) ==
    [k \in DOMAIN order |->
        [idx |-> order[k],
         score |-> MOF_combined_score(token_set, partial,
                                      fsq_rows[order[k] + 1].norm,
                                      fsq_rows[order[k] + 1].norm_leaf)]]

\* as MOF_sorted, without the sort
MOF_unsorted(rescored) == rescored

\* rescored.sort(key=lambda x: x[1], reverse=True)
MOF_sorted(rescored) ==
    Reordered(rescored, StableDesc([j \in DOMAIN rescored |-> rescored[j].score]))

\* match_one from the loop over indices on; the result holds the locals of
\* the call, matches being the list returned
MOF_rerank(q, fsq_rows, token_set, partial, topn, shortlist_full, shortlist_leaf, order) ==
    [q |-> q, token_set |-> token_set, partial |-> partial,
     shortlist_full |-> shortlist_full, shortlist_leaf |-> shortlist_leaf,
     indices |-> order,
     matches |-> FirstN(MOF_sorted(MOF_rescored(order, fsq_rows, token_set,
                                                partial)), topn)]

\* match_one from the first indices.add on
MOF_collect(q, fsq_rows, token_set, partial, topn, shortlist_full, shortlist_leaf) ==
    MOF_rerank(q, fsq_rows, token_set, partial, topn, shortlist_full,
               shortlist_leaf, SetIter(MOF_indices(shortlist_full, shortlist_leaf)))

\* the texts of one column of the rows
Column(fsq_rows, name) == [i \in DOMAIN fsq_rows |-> fsq_rows[i][name]]

\* match_one, given the values the two scorers have for the query and each
\* text of the table
MOF_match_one(query_label, fsq_rows, token_set, partial, topn) ==
    MOF_collect(
        MOF_normalize(Some(query_label)), fsq_rows, token_set, partial, topn,
        MOF_extract(MOF_column_scores(Column(fsq_rows, "norm"), token_set),
                    MOF_limit(topn)),
        MOF_extract(MOF_column_scores(Column(fsq_rows, "norm_leaf"), token_set),
                    MOF_limit(topn)))

\* samples of fuzz.token_set_ratio and of fuzz.partial_ratio; with them every
\* combined_score is a whole number, which the float arithmetic of
\* combined_score computes exactly
TokenSetSamples == {80, 100}

PartialSamples == {60, 80}

\* the threshold of needs_review
ReviewBelow == 80

\* as MOF_needs_review, with the boundary score flagged as well
MOF_needs_review_inclusive(s0) ==
    IF RLe(s0, Rat(ReviewBelow, 1)) THEN "TRUE" ELSE "FALSE"

\* needs_review = "TRUE" if s0 < 80 else "FALSE"
MOF_needs_review(s0) ==
    IF RLt(s0, Rat(ReviewBelow, 1)) THEN "TRUE" ELSE "FALSE"

\* 'while len(matches) < 3: matches.append((0, 0.0))'
MOF_padded(matches) ==
    matches \o [k \in 1..(3 - Len(matches)) |-> [idx |-> 0, score |-> Zero]]

\* row_at(i)
MOF_row_at(fsq_rows, i) ==
    IF i < 0 \/ i >= Len(fsq_rows)
    THEN [id |-> "", label |-> "", primary |-> "", secondary |-> ""]
    ELSE fsq_rows[i + 1]

\* f"{s:.1f}", as the number the text denotes
Format1(s) == Rat(IntRound(RScale(10, 1, s)), 10)

\* the row main writes for a source label and its three padded matches
MOF_out_row(om_label, fsq_rows, m) ==
    [OM_CATEGORY_LABEL |-> om_label,
     FSQ_BEST_LABEL |-> MOF_row_at(fsq_rows, m[1].idx).label,
     FSQ_BEST_ID |-> MOF_row_at(fsq_rows, m[1].idx).id,
     FSQ_BEST_PRIMARY |-> MOF_row_at(fsq_rows, m[1].idx).primary,
     FSQ_BEST_SECONDARY |-> MOF_row_at(fsq_rows, m[1].idx).secondary,
     BEST_SCORE |-> Format1(m[1].score),
     FSQ_ALT1_LABEL |-> MOF_row_at(fsq_rows, m[2].idx).label,
     ALT1_ID |-> MOF_row_at(fsq_rows, m[2].idx).id,
     ALT1_SCORE |-> Format1(m[2].score),
     FSQ_ALT2_LABEL |-> MOF_row_at(fsq_rows, m[3].idx).label,
     ALT2_ID |-> MOF_row_at(fsq_rows, m[3].idx).id,
     ALT2_SCORE |-> Format1(m[3].score),
     NEEDS_REVIEW |-> MOF_needs_review(m[1].score)]

\* the loop body of main, given the locals of its match_one call; out_rows
\* keeps the locals of each call
MOF_write(om_label, call) ==
    /\ written' = Some(Append(written[1],
                       MOF_out_row(om_label, fsq_df, MOF_padded(call.matches))))
    /\ out_rows' = Append(out_rows, call)

\* the texts the scorers are called on for the rows
Texts(fsq_rows) ==
    {fsq_rows[i].norm : i \in DOMAIN fsq_rows}
        \cup {fsq_rows[i].norm_leaf : i \in DOMAIN fsq_rows}

\* longest Foursquare file of a short run, and longest Overture file
MaxMofRows == 1

MaxMofSources == 1

\* length of the long Foursquare file
LongTableLen == 129

\* rows of the short Foursquare files: two categories and a row without a
\* label
MofRows ==
    {FsqCatalog[4], FsqCatalog[6],
     [id |-> "x", name |-> "", label |-> "", primary |-> "", secondary |-> ""]}

\* the long Foursquare file: florists, and one bar in the last row
LongFsqFile ==
    [i \in 1..LongTableLen |->
        IF i = LongTableLen THEN FsqCatalog[4] ELSE FsqCatalog[5]]

\* labels of the Overture file
MofLabels == {"bar", "flower_shop", ""}

\* the pairs of input files of a run: every short Foursquare file with every
\* Overture file, and the long Foursquare file with one Overture file
MofInputs ==
    {[fsq |-> fsq, om |-> om] :
        fsq \in SeqsUpTo(MofRows, MaxMofRows),
        om \in SeqsUpTo(MofLabels, MaxMofSources)}
    \cup {[fsq |-> LongFsqFile, om |-> <<"bar">>]}

\* as MOF_missing, with the test made after OUT_PATH is opened
MOF_missing_after_open ==
    /\ script = "map_om_to_fsq"
    /\ run_pc = "start"
    /\ written' = Some(<<>>)
    /\ run_pc' = "exited"
    /\ exception' = "SystemExit"
    /\ UNCHANGED <<script, fsq_df, om_df, todo, out_rows, amb_rows,
                   harnessVars, mapperVars>>

\* main when an input file is missing: sys.exit(1)
MOF_missing ==
    /\ script = "map_om_to_fsq"
    /\ run_pc = "start"
    /\ run_pc' = "exited"
    /\ exception' = "SystemExit"
    /\ UNCHANGED <<script, fsq_df, om_df, todo, out_rows, written, amb_rows,
                   harnessVars, mapperVars>>

\* main up to the loop: both files are loaded, the output file is opened and
\* its header written
MOF_load ==
    /\ script = "map_om_to_fsq"
    /\ run_pc = "start"
    /\ \E files \in MofInputs :
           /\ fsq_df' = MOF_load_fsq_categories(files.fsq)
           /\ om_df' = MOF_load_unique_om_labels(files.om)
    /\ todo' = om_df'
    /\ written' = Some(<<>>)
    /\ run_pc' = "mapping"
    /\ UNCHANGED <<script, out_rows, amb_rows, exception, harnessVars,
                   mapperVars>>

\* main: one iteration of the loop over om_labels
MOF_step ==
    /\ script = "map_om_to_fsq"
    /\ run_pc = "mapping"
    /\ todo # <<>>
    /\ \E token_set \in [Texts(fsq_df) -> TokenSetSamples],
          partial \in [Texts(fsq_df) -> PartialSamples] :
           MOF_write(Head(todo),
                     MOF_match_one(Head(todo), fsq_df, token_set, partial, 3))
    /\ todo' = Tail(todo)
    /\ UNCHANGED <<script, fsq_df, om_df, amb_rows, run_pc, exception,
                   harnessVars, mapperVars>>

\* main: the loop is over and the file is closed
MOF_finish ==
    /\ script = "map_om_to_fsq"
    /\ run_pc = "mapping"
    /\ todo = <<>>
    /\ run_pc' = "done"
    /\ UNCHANGED <<script, fsq_df, om_df, todo, out_rows, written, amb_rows,
                   exception, harnessVars, mapperVars>>

\* a run of om_to_fsq_map.py or of map_om_to_fsq.py is started
InitReview ==
    /\ script \in {"om_to_fsq_map", "map_om_to_fsq"}
    /\ run_pc = "start" /\ exception = "none"
    /\ fsq_df = <<>> /\ om_df = <<>> /\ todo = <<>>
    /\ out_rows = <<>> /\ written = None /\ amb_rows = <<>>
    /\ IdleHarness
    /\ IdleMapper

NextReview ==
    \/ OFM_load
    \/ OFM_step
    \/ OFM_finish
    \/ MOF_missing
    \/ MOF_load
    \/ MOF_step
    \/ MOF_finish

SpecReview == InitReview /\ [][NextReview]_vars

-----------------------------------------------------------------------------
(* Claims about the review flag, the shortlists and the ranking of         *)
(* map_om_to_fsq.py                                                        *)

\* s0 of the loop body: the score of the first match, 0.0 when match_one
\* returned nothing
PrimaryScore(call) ==
    IF call.matches = <<>> THEN Zero ELSE call.matches[1].score

\* C16: map_om_to_fsq.main writes NEEDS_REVIEW = TRUE exactly for the rows
\* whose best score s0 is below 80, a score of exactly 80 being written as
\* FALSE; om_to_fsq_map.map_om_to_fsq writes to the ambiguous file exactly the
\* rows of the main output whose MATCH_SCORE is below the threshold, in order.
C16_ReviewIffBelowThreshold ==
    /\ (script = "map_om_to_fsq" /\ written # None)
           => /\ Len(written[1]) = Len(out_rows)
              /\ \A k \in DOMAIN written[1] :
                     written[1][k].NEEDS_REVIEW =
                         IF RLt(PrimaryScore(out_rows[k]), Rat(80, 1))
                         THEN "TRUE" ELSE "FALSE"
    /\ (script = "om_to_fsq_map" /\ written # None)
           => amb_rows = SelectSeq(written[1],
                             LAMBDA row : RLt(row.MATCH_SCORE, Rat(86, 1)))

\* a finished run of map_om_to_fsq.py wrote a row whose best score is exactly
\* 80, not flagged
C16_Witness ==
    /\ script = "map_om_to_fsq" /\ run_pc = "done"
    /\ \E k \in DOMAIN out_rows :
           /\ out_rows[k].matches # <<>>
           /\ out_rows[k].matches[1].score = Rat(80, 1)
           /\ written[1][k].BEST_SCORE = Rat(80, 1)
           /\ written[1][k].NEEDS_REVIEW = "FALSE"

\* a finished run of om_to_fsq_map.py wrote a row whose score is the
\* threshold, and none to the ambiguous file
C16_WitnessFuzzy ==
    /\ script = "om_to_fsq_map" /\ run_pc = "done"
    /\ \E k \in DOMAIN written[1] : written[1][k].MATCH_SCORE = Rat(86, 1)
    /\ amb_rows = <<>>

\* the rows that are in either shortlist of a call
Shortlisted(call) == Range(call.shortlist_full) \cup Range(call.shortlist_leaf)

\* combined_score of row i of the table in a call
CallScore(call, i) ==
    MOF_combined_score(call.token_set, call.partial,
                       fsq_df[i + 1].norm, fsq_df[i + 1].norm_leaf)

\* no row outside the shortlist has a greater token_set_ratio on the column
\* than a row inside
NoneBetterOutside(call, inside, outside, name) ==
    \A i \in inside : \A j \in outside :
        call.token_set[fsq_df[j + 1][name]] <= call.token_set[fsq_df[i + 1][name]]

\* the shortlist holds the limit best rows of the table by token_set_ratio on
\* the column, or all rows of a shorter table
IsTopK(call, shortlist, name, limit) ==
    /\ Len(shortlist) = Min(Len(fsq_df), limit)
    /\ Cardinality(Range(shortlist)) = Len(shortlist)
    /\ NoneBetterOutside(call, Range(shortlist),
                         (0..(Len(fsq_df) - 1)) \ Range(shortlist), name)

\* the first match of the call has the greatest combined_score of the
\* shortlisted rows
BestOfShortlisted(call) ==
    /\ call.matches # <<>>
    /\ call.matches[1].idx \in Shortlisted(call)
    /\ call.matches[1].score = CallScore(call, call.matches[1].idx)
    /\ \A i \in Shortlisted(call) :
           RLe(CallScore(call, i), call.matches[1].score)

\* row g scores above every other row of the table
GloballyBest(call, g) ==
    \A j \in 0..(Len(fsq_df) - 1) :
        j # g => RLt(CallScore(call, j), CallScore(call, g))

\* greatest topn the shortlist size is computed for
MaxTopn == 8

\* C19: in every list match_one returns, rows with equal combined_score stand
\* in Foursquare input order, and the first match is the earliest of the
\* shortlisted rows that have the greatest combined_score.
C19_TiesInInputOrder ==
    script = "map_om_to_fsq" =>
        \A k \in DOMAIN out_rows :
            /\ \A a, b \in DOMAIN out_rows[k].matches :
                   (a < b /\ out_rows[k].matches[a].score
                                 = out_rows[k].matches[b].score)
                       => out_rows[k].matches[a].idx < out_rows[k].matches[b].idx
            /\ \A i \in Shortlisted(out_rows[k]) :
                   CallScore(out_rows[k], i) = PrimaryScore(out_rows[k])
                       => out_rows[k].matches[1].idx <= i

\* C20: the shortlists of match_one hold the max(50, 10*topn) best rows by
\* token_set_ratio on the full and on the leaf label, its first element is a
\* shortlisted row with the greatest combined_score of all shortlisted rows,
\* a shortlisted row that scores above every other row of the table is the
\* first element, and the shortlist size is at least 10 * topn.
C20_BestOfShortlistFirst ==
    /\ \A topn \in 1..MaxTopn :
           MOF_limit(topn) >= 10 * topn /\ MOF_limit(topn) >= 50
    /\ script = "map_om_to_fsq" =>
           \A k \in DOMAIN out_rows :
               /\ IsTopK(out_rows[k], out_rows[k].shortlist_full, "norm", 50)
               /\ IsTopK(out_rows[k], out_rows[k].shortlist_leaf, "norm_leaf", 50)
               /\ fsq_df # <<>> => BestOfShortlisted(out_rows[k])
               /\ \A g \in Shortlisted(out_rows[k]) :
                      GloballyBest(out_rows[k], g)
                          => out_rows[k].matches[1].idx = g

\* a call over a table longer than the shortlists whose best match is the
\* last row of the table, ahead of shortlisted rows that score less
C20_Witness ==
    /\ script = "map_om_to_fsq"
    /\ \E k \in DOMAIN out_rows :
           /\ Len(fsq_df) > Cardinality(Shortlisted(out_rows[k]))
           /\ out_rows[k].matches[1].idx = Len(fsq_df) - 1
           /\ GloballyBest(out_rows[k], Len(fsq_df) - 1)
           /\ out_rows[k].indices[1] # Len(fsq_df) - 1

-----------------------------------------------------------------------------
(* simplify_overture_categories.py: get_simplified_category                *)

\* the rules of get_simplified_category in source order: the bucket returned,
\* the keywords of the any(...) test, and the terms of the inner
\* 'not in cat' test
SOC_rules ==
    << [bucket |-> "Food & Dining",
        keywords |->
            {"restaurant", "cafe", "coffee", "food", "dining",
             "bar", "pub", "brewery", "winery", "bakery", "pizza",
             "burger", "sandwich", "diner", "bistro", "eatery",
             "caterer", "donuts", "ice_cream", "dessert", "candy",
             "chocolate", "patisserie", "bagel", "taco",
             "barbecue", "steakhouse", "gastropub", "brasserie",
             "lounge", "_bar", "cocktail", "wine_bar", "beer_bar",
             "speakeasy", "champagne_bar", "sake_bar", "hookah",
             "cigar_bar", "tea_room", "juice_bar", "smoothie",
             "meat_shop", "butcher", "seafood", "delicatessen",
             "cheese_shop", "pasta_shop", "pie_shop", "cupcake",
             "empanadas", "pretzel", "popcorn", "hot_dog",
             "chicken_wings", "poke", "doner", "falafel",
             "dumpling", "noodles", "sushi", "dim_sum", "waffle",
             "pancake", "gelato", "frozen_yoghurt", "shaved_ice",
             "acai", "kombucha", "bubble_tea", "cidery",
             "distillery", "eat_and_drink", "tapas"},
        unless |-> {}],
       [bucket |-> "Healthcare & Medical",
        keywords |->
            {"doctor", "physician", "medical", "health", "clinic",
             "hospital", "dentist", "dental", "surgeon",
             "surgery", "therapist", "therapy", "chiropractor",
             "acupuncture", "optometrist", "ophthalmologist",
             "podiatrist", "dermatologist", "cardiologist",
             "neurologist", "oncologist", "pediatric",
             "obstetrician", "gynecologist", "urologist",
             "radiologist", "anesthesiologist", "pathologist",
             "psychiatrist", "psychologist", "counselor",
             "psychotherapist", "pharmacy", "medicine",
             "veterinarian", "veterinary", "animal_hospital",
             "emergency_room", "urgent_care", "rehabilitation",
             "hospice", "nursing", "dialysis", "orthopedist",
             "allergist", "endocrinologist", "gastroenterologist",
             "nephrologist", "pulmonologist", "rheumatologist",
             "hematology", "hepatologist", "proctologist",
             "toxicologist", "immunologist", "geneticist",
             "retina_specialist", "otologist", "audiologist",
             "speech_therapist", "occupational_therapy",
             "physical_therapy", "massage_therapy",
             "naturopathic", "holistic", "alternative_medicine",
             "homeopathic", "ayurveda", "acne_treatment",
             "laser_eye", "cannabis_clinic", "fertility",
             "midwife", "doula", "maternity", "prenatal",
             "lactation", "abortion", "mohel"},
        unless |-> {}],
       [bucket |-> "Retail & Shopping",
        keywords |->
            {"store", "shop", "retail", "boutique", "market",
             "supermarket", "grocery", "department_store",
             "discount_store", "outlet", "thrift", "pawn",
             "convenience_store", "drugstore", "mall",
             "shopping_center", "bookstore", "toy_store",
             "gift_shop", "souvenir", "clothing", "apparel",
             "shoe_store", "jewelry_store", "watch_store",
             "eyewear", "optical", "furniture_store",
             "home_goods", "hardware_store", "paint_store",
             "flooring_store", "carpet_store", "tile_store",
             "lighting_store", "appliance_store", "electronics",
             "computer_store", "mobile_phone_store",
             "sporting_goods", "outdoor_gear", "bike_shop",
             "surf_shop", "dive_shop", "gun_and_ammo",
             "pet_store", "aquatic_pet", "bird_shop",
             "reptile_shop", "art_supply", "craft_shop",
             "fabric_store", "knitting", "yarn", "music_store",
             "instrument_store", "vinyl_record",
             "video_game_store", "comic_books", "antique",
             "vintage", "flea_market", "farmers_market",
             "shopping", "superstore", "kiosk", "dispensary",
             "liquor_store", "tobacco_shop", "vape",
             "e_cigarette"},
        unless |-> {}],
       [bucket |-> "Automotive",
        keywords |->
            {"auto", "automotive", "car_", "vehicle", "truck_",
             "motorcycle", "scooter_dealer", "dealer", "repair",
             "mechanic", "tire", "brake", "transmission",
             "muffler", "body_shop", "detailing", "car_wash",
             "towing", "gas_station", "fuel_", "oil_change",
             "smog", "inspection", "emissions", "windshield",
             "window_tint", "upholstery", "customization",
             "restoration"},
        unless |-> {"museum"}],
       [bucket |-> "Beauty & Wellness",
        keywords |->
            {"salon", "barber", "hair_", "nail_", "spa", "beauty",
             "esthetician", "aesthetician", "massage", "facial",
             "wax", "laser_hair", "eyelash", "eyebrow", "tanning",
             "tattoo", "piercing", "makeup", "cosmetic",
             "skin_care", "aromatherapy", "reiki", "halotherapy",
             "cryotherapy", "hydrotherapy", "float_spa", "sauna",
             "fitness", "gym", "yoga", "pilates", "boxing",
             "martial_arts", "karate", "taekwondo", "jiu_jitsu",
             "muay_thai", "kickboxing", "boot_camp", "trainer",
             "weight_loss", "nutrition", "dietitian",
             "health_coach", "blow_dry", "threading", "sugaring",
             "boudoir"},
        unless |-> {"supply", "school", "product", "manufacturer"}],
       [bucket |-> "Sports & Recreation",
        keywords |->
            {"sports", "stadium", "arena", "field", "court",
             "track", "pitch", "golf", "bowling", "skating",
             "ski_", "climbing", "swimming_pool", "tennis",
             "basketball", "football", "soccer", "baseball",
             "hockey", "volleyball", "rugby", "cricket", "squash",
             "racquetball", "handball", "badminton",
             "table_tennis", "bocce", "disc_golf", "mini_golf",
             "go_kart", "race_track", "shooting_range", "archery",
             "paintball", "laser_tag", "trampoline",
             "bounce_house", "batting_cage", "skate_park", "bmx",
             "mountain_bike", "trail", "hiking", "scuba",
             "diving", "snorkel", "surf", "kite", "paddle",
             "kayak", "canoe", "sailing", "rowing", "fishing",
             "hunting", "horse_", "equestrian", "ski_resort",
             "tubing", "sledding", "snowboard", "ice_rink", "gym",
             "fitness", "aerial", "rock_climbing", "bouldering"},
        unless |-> {"museum", "store", "equipment"}],
       [bucket |-> "Arts & Entertainment",
        keywords |->
            {"museum", "gallery", "theater", "theatre", "cinema",
             "movie", "performing_arts", "concert", "music_venue",
             "comedy", "nightclub", "dance_club", "amusement",
             "theme_park", "water_park", "zoo", "aquarium",
             "botanical", "casino", "arcade", "escape_room",
             "virtual_reality", "festival", "fair", "carnival",
             "circus", "rodeo", "haunted_house", "observatory",
             "planetarium", "artist", "art_", "cultural_center",
             "karaoke", "bingo", "magic", "clown",
             "entertainment", "production", "studio", "recording",
             "rehearsal", "band", "orchestra", "choir", "opera",
             "ballet", "dance_school", "drama", "acting"},
        unless |-> {}],
       [bucket |-> "Education",
        keywords |->
            {"school", "university", "college", "education",
             "academy", "institute", "kindergarten", "preschool",
             "day_care", "daycare", "elementary", "middle_school",
             "high_school", "tutoring", "training", "class",
             "lesson", "instructor", "teacher", "coach",
             "library", "student_union", "montessori", "waldorf",
             "charter_school", "vocational", "technical_school"},
        unless |-> {"driving", "traffic", "bartending"}],
       [bucket |-> "Accommodation & Lodging",
        keywords |->
            {"hotel", "motel", "inn", "resort", "lodge", "hostel",
             "bed_and_breakfast", "vacation_rental", "cottage",
             "cabin", "apartment", "condominium", "housing",
             "accommodation", "campground", "rv_park",
             "guest_house", "pension", "houseboat"},
        unless |-> {}],
       [bucket |-> "Professional Services",
        keywords |->
            {"lawyer", "attorney", "law", "legal", "accountant",
             "bookkeeper", "tax_service", "financial",
             "consultant", "consulting", "marketing",
             "advertising", "public_relations", "design",
             "architect", "engineer", "management", "hr_",
             "human_resource", "employment", "recruiting",
             "temp_agency", "notary", "paralegal", "mediator",
             "appraisal", "web_designer", "graphic_designer",
             "photographer", "videographer", "writer", "editor",
             "translation", "interpreter", "transcription"},
        unless |-> {"museum", "school"}],
       [bucket |-> "Financial Services",
        keywords |->
            {"bank", "credit_union", "atm", "insurance", "loan",
             "mortgage", "investment", "financial", "broker",
             "stock", "currency_exchange", "check_cashing",
             "payday", "bail_bonds", "credit_counseling",
             "debt_relief", "accounting", "tax_", "bookkeeping"},
        unless |-> {"museum"}],
       [bucket |-> "Real Estate",
        keywords |->
            {"real_estate", "property_management",
             "apartment_agent", "housing", "developer",
             "home_staging", "home_inspector"},
        unless |-> {}],
       [bucket |-> "Construction & Contractors",
        keywords |->
            {"contractor", "construction", "builder", "plumbing",
             "electrician", "hvac", "roofing", "carpenter",
             "mason", "concrete", "drywall", "painting",
             "remodeling", "renovation", "foundation",
             "excavation", "demolition", "tiling", "flooring",
             "siding", "insulation", "waterproof", "septic",
             "well_drilling", "paving"},
        unless |-> {"school", "supply"}],
       [bucket |-> "Home & Garden Services",
        keywords |->
            {"landscaping", "lawn", "gardener", "tree_service",
             "pest_control", "cleaning", "janitorial", "maid",
             "window_washing", "carpet_cleaning", "gutter",
             "fence", "deck", "patio", "pool_cleaning",
             "handyman", "locksmith", "security_system",
             "garage_door", "door_service", "appliance_repair",
             "junk_removal", "hauling", "moving", "movers",
             "snow_removal", "pressure_washing", "chimney"},
        unless |-> {"store", "supply"}],
       [bucket |-> "Government & Public Services",
        keywords |->
            {"government", "city_hall", "town_hall", "courthouse",
             "dmv", "motor_vehicle", "post_office", "police",
             "fire_department", "emergency_service",
             "social_security", "unemployment", "welfare",
             "public_health", "department_of", "office_of",
             "bureau", "agency", "commission", "federal", "state",
             "local", "municipal", "civic", "embassy", "military",
             "army", "navy", "armed_forces", "national_security",
             "jail", "prison", "detention", "passport", "visa",
             "customs"},
        unless |-> {"school", "museum"}],
       [bucket |-> "Utilities & Infrastructure",
        keywords |->
            {"utility", "electric", "power_plant", "energy",
             "water_supplier", "sewage", "sanitation", "waste",
             "garbage", "recycling", "telecommunications",
             "internet", "cable", "phone_service", "pipeline",
             "dam", "bridge", "tunnel", "toll_station"},
        unless |-> {"repair", "installation"}],
       [bucket |-> "Religious & Spiritual",
        keywords |->
            {"church", "temple", "mosque", "synagogue",
             "cathedral", "chapel", "religious", "spiritual",
             "monastery", "convent", "shrine", "meditation",
             "buddhist", "hindu", "christian", "catholic",
             "protestant", "episcopal", "baptist", "pentecostal",
             "evangelical", "jehovah", "sikh", "mission",
             "parish", "astrologer", "psychic", "mystic"},
        unless |-> {}],
       [bucket |-> "Transportation",
        keywords |->
            {"airport", "train_station", "bus_station", "metro",
             "subway", "transit", "ferry", "port", "terminal",
             "taxi", "ride_sharing", "limo", "shuttle",
             "transportation", "parking", "airline", "railway",
             "railroad", "seaplane", "heliport", "cable_car",
             "light_rail"},
        unless |-> {"museum", "repair", "dealer"}],
       [bucket |-> "Tourism & Attractions",
        keywords |->
            {"tourist", "attraction", "tours", "sightseeing",
             "visitor_center", "lighthouse", "monument",
             "landmark", "castle", "palace", "fort", "historical",
             "memorial", "sculpture", "statue", "fountain",
             "lookout", "observation", "scenic"},
        unless |-> {}],
       [bucket |-> "Parks & Natural Features",
        keywords |->
            {"park", "playground", "garden", "nature_reserve",
             "national_park", "state_park", "wildlife",
             "sanctuary", "preserve", "mountain", "hill",
             "valley", "canyon", "cave", "forest", "desert",
             "beach", "coast", "island", "lake", "river",
             "waterfall", "spring", "dam", "reservoir", "marsh",
             "wetland", "dune", "cliff", "volcano", "geyser",
             "hot_springs"},
        unless |-> {"amusement", "theme", "water_park"}],
       [bucket |-> "Agriculture & Farming",
        keywords |->
            {"farm", "ranch", "orchard", "vineyard",
             "agriculture", "agricultural", "livestock", "cattle",
             "dairy", "poultry", "pig_", "fish_farm", "crop",
             "grain", "produce", "harvest", "bee", "honey",
             "apiary", "csa_farm", "urban_farm", "pumpkin_patch",
             "pick_your_own"},
        unless |-> {"insurance", "equipment", "supply"}],
       [bucket |-> "Manufacturing & Industrial",
        keywords |->
            {"manufacturing", "manufacturer", "factory", "plant",
             "mill", "foundry", "refinery", "industrial",
             "production", "assembly", "fabrication",
             "processing", "packaging", "bottling", "printing",
             "publishing", "textile", "chemical", "plastic",
             "metal", "steel", "iron", "lumber", "paper",
             "warehouse", "distribution", "mining", "quarry",
             "oil_and_gas", "petroleum", "coal"},
        unless |-> {"store", "repair"}],
       [bucket |-> "Media & Communications",
        keywords |->
            {"media", "newspaper", "magazine", "radio_station",
             "tv_station", "television_station", "broadcasting",
             "publisher", "press", "news", "journalism",
             "social_media"},
        unless |-> {}],
       [bucket |-> "Technology & IT",
        keywords |->
            {"software", "it_", "computer_repair", "tech_support",
             "web_hosting", "data_recovery", "network",
             "cybersecurity", "biotechnology",
             "scientific_laboratory", "research_institute"},
        unless |-> {}],
       [bucket |-> "Event Services",
        keywords |->
            {"event_planning", "wedding_planning", "party_",
             "catering", "venue", "dj_", "entertainment_service",
             "rental_service", "photo_booth", "balloon_",
             "florist", "floral"},
        unless |-> {"supply"}],
       [bucket |-> "Pet Services",
        keywords |->
            {"pet_", "dog_", "animal_", "veterinary", "groomer",
             "boarding", "training", "walker", "sitter",
             "adoption", "shelter", "rescue"},
        unless |-> {"store", "hospital", "supply"}],
       [bucket |-> "Personal Services",
        keywords |->
            {"tailor", "alterations", "dry_cleaning", "laundry",
             "shoe_repair", "watch_repair", "jewelry_repair",
             "engraving", "framing", "photo_", "portrait",
             "life_coach", "personal_trainer", "personal_chef",
             "personal_assistant", "concierge", "valet",
             "matchmaker", "dating"},
        unless |-> {"supply", "equipment"}],
       [bucket |-> "Community & Social Services",
        keywords |->
            {"community_center", "social_service", "charity",
             "non_profit", "nonprofit", "volunteer", "donation",
             "shelter", "homeless", "food_bank",
             "community_garden", "youth", "senior", "elder",
             "disability", "counseling", "crisis",
             "suicide_prevention", "abuse", "addiction",
             "rehabilitation", "foster_care", "adoption",
             "veterans", "refugee", "fraternal", "association",
             "organization", "union"},
        unless |-> {}] >>

\* as SOC_any, with equality in place of the substring test
SOC_any_exact(cat, words) == cat \in words

\* any(x in cat for x in words)
SOC_any(cat, words) == \E x \in words : Contains(x, cat)

RECURSIVE SOC_from_rule_stopping(_, _)
\* as SOC_from_rule, with a rule whose exclusion applies ending the
\* evaluation
SOC_from_rule_stopping(cat, n) ==
    IF n > Len(SOC_rules) THEN "Other Services"
    ELSE IF SOC_any(cat, SOC_rules[n].keywords)
         THEN IF ~SOC_any(cat, SOC_rules[n].unless)
              THEN SOC_rules[n].bucket ELSE "Other Services"
         ELSE SOC_from_rule_stopping(cat, n + 1)

\* as SOC_b2b, with the 'wholesaler' disjunct lacking its second test
SOC_b2b_any_wholesaler(cat) ==
    \/ Contains("b2b", cat)
    \/ Contains("wholesaler", cat)
    \/ Contains("distributor", cat)
    \/ Contains("supplier", cat)

\* the test of the Business-to-Business rule
SOC_b2b(cat) ==
    \/ Contains("b2b", cat)
    \/ (Contains("wholesaler", cat) /\ ~Contains("wholesale", cat))
    \/ Contains("distributor", cat)
    \/ Contains("supplier", cat)

\* the end of get_simplified_category: the Business-to-Business rule and the
\* default
SOC_last(cat) ==
    IF SOC_b2b(cat) THEN "Business-to-Business" ELSE "Other Services"

RECURSIVE SOC_from_rule(_, _)
\* the if statements of get_simplified_category from rule n on
SOC_from_rule(cat, n) ==
    IF n > Len(SOC_rules) THEN SOC_last(cat)
    ELSE IF /\ SOC_any(cat, SOC_rules[n].keywords)
            /\ ~SOC_any(cat, SOC_rules[n].unless)
         THEN SOC_rules[n].bucket
         ELSE SOC_from_rule(cat, n + 1)

get_simplified_category(category) == SOC_from_rule(Lower(category), 1)

\* most words of a drawn label
MaxLabelWords == 2

\* words the drawn labels are made of
LabelWords ==
    {"auto", "museum", "wholesaler", "b2b", "supplier", "store", "xyz", "gym"}

RECURSIVE WordLabels(_)
\* the labels of n words joined by underscores
WordLabels(n) ==
    IF n = 1 THEN LabelWords
    ELSE {l \o "_" \o w : l \in WordLabels(n - 1), w \in LabelWords}

\* the labels get_simplified_category is called on
SimplifyLabels ==
    UNION {WordLabels(n) : n \in 1..MaxLabelWords}
        \cup {"fast_food_restaurant", "veterinarian", "totally_unknown_xyz",
              "", "Cafe", "beauty_supply", "spa_school", "dam_repair",
              "wholesale", "distributor", "B2B_Wholesale"}

\* a call of get_simplified_category is about to be made
InitSimplify ==
    /\ fn = "get_simplified_category"
    /\ \E label \in SimplifyLabels : args = <<label>>
    /\ ret = None
    /\ IdleMapper
    /\ IdleScripts

Call_get_simplified_category ==
    /\ fn = "get_simplified_category"
    /\ ret = None
    /\ ret' = Some(get_simplified_category(args[1]))
    /\ UNCHANGED <<fn, args, mapperVars, scriptVars>>

NextSimplify == Call_get_simplified_category

SpecSimplify == InitSimplify /\ [][NextSimplify]_vars

-----------------------------------------------------------------------------
(* Claims about get_simplified_category                                    *)

\* rule n has a keyword in the label and none of its exclusion terms
Qualifies(cat, n) ==
    /\ \E x \in SOC_rules[n].keywords : Contains(x, cat)
    /\ \A x \in SOC_rules[n].unless : ~Contains(x, cat)

\* the rules that have a keyword in the label
KeywordRules(cat) ==
    {n \in DOMAIN SOC_rules : \E x \in SOC_rules[n].keywords : Contains(x, cat)}

\* the last rule, which has no bucket-wide exclusion, applies
QualifiesLast(cat) ==
    \/ \E x \in {"b2b", "distributor", "supplier"} : Contains(x, cat)
    \/ Contains("wholesaler", cat) /\ ~Contains("wholesale", cat)

\* the bucket of the first qualifying rule of the table, of the last rule when
\* none of the table qualifies, and the default otherwise
FirstQualifying(cat, qualifying) ==
    IF qualifying # {}
    THEN SOC_rules[CHOOSE n \in qualifying : \A m \in qualifying : n <= m].bucket
    ELSE IF QualifiesLast(cat) THEN "Business-to-Business"
    ELSE "Other Services"

\* C21: get_simplified_category returns the bucket of the first rule in
\* source order that has a keyword in the lowercased label and no exclusion
\* term in it, rules whose exclusion applies being passed over, and
\* 'Other Services' when no rule qualifies.
C21_FirstQualifyingRuleWins ==
    Returned("get_simplified_category")
        => ret[1] = FirstQualifying(Lower(args[1]),
                        {n \in DOMAIN SOC_rules : Qualifies(Lower(args[1]), n)})

\* a call whose label has a keyword of a rule that its exclusion rules out,
\* and that returned the bucket of a later rule
C21_Witness ==
    /\ Returned("get_simplified_category")
    /\ \E k \in KeywordRules(Lower(args[1])) :
           /\ ~Qualifies(Lower(args[1]), k)
           /\ \E n \in DOMAIN SOC_rules :
                  n > k /\ Qualifies(Lower(args[1]), n) /\ ret[1] = SOC_rules[n].bucket

\* C22: the three labels of the flattener scenario get 'Food & Dining',
\* 'Healthcare & Medical' and 'Other Services'; no keyword of any rule is in
\* "totally_unknown_xyz" and no 'Food & Dining' keyword is in "veterinarian".
C22_FlattenerScenario ==
    /\ KeywordRules("totally_unknown_xyz") = {}
    /\ ~QualifiesLast("totally_unknown_xyz")
    /\ 1 \notin KeywordRules("veterinarian")
    /\ Returned("get_simplified_category") =>
           /\ args[1] = "fast_food_restaurant" => ret[1] = "Food & Dining"
           /\ args[1] = "veterinarian" => ret[1] = "Healthcare & Medical"
           /\ args[1] = "totally_unknown_xyz" => ret[1] = "Other Services"

\* the call on "veterinarian" has returned
C22_Witness ==
    /\ Returned("get_simplified_category")
    /\ args[1] = "veterinarian"
    /\ ret[1] = "Healthcare & Medical"

\* C30: no label satisfies the 'wholesaler' disjunct of the last rule;
\* 'Business-to-Business' is returned only for labels that contain 'b2b',
\* 'distributor' or 'supplier' and that no earlier rule captured, and a label
\* whose only keyword is 'wholesaler' gets 'Other Services'.
C30_WholesalerDisjunctDead ==
    Returned("get_simplified_category") =>
        /\ ~(/\ Contains("wholesaler", Lower(args[1]))
             /\ ~Contains("wholesale", Lower(args[1])))
        /\ ret[1] = "Business-to-Business" =>
               /\ \E x \in {"b2b", "distributor", "supplier"} :
                      Contains(x, Lower(args[1]))
               /\ \A n \in DOMAIN SOC_rules : ~Qualifies(Lower(args[1]), n)
        /\ (/\ Contains("wholesaler", Lower(args[1]))
            /\ KeywordRules(Lower(args[1])) = {}
            /\ \A x \in {"b2b", "distributor", "supplier"} :
                   ~Contains(x, Lower(args[1])))
               => ret[1] = "Other Services"

\* a call on a label whose only keyword is 'wholesaler'
C30_Witness ==
    /\ Returned("get_simplified_category")
    /\ Contains("wholesaler", Lower(args[1]))
    /\ KeywordRules(Lower(args[1])) = {}
    /\ ret[1] = "Other Services"

-----------------------------------------------------------------------------
(* category_mapper.py: the matching process run again on the same object   *)

\* most calls of find_best_matches on one CategoryMapper
MaxRuns == 2

\* categorize_by_semantics and find_best_matches are called again on the
\* CategoryMapper, the tables being the same
run_again ==
    /\ pc = "done"
    /\ Len(run_results) < MaxRuns
    /\ pc' = "loaded"
    /\ UNCHANGED <<foursquare_data, overture_data, semantic_groups,
                   mapping_results, matched_overture, sem_todo, unmatched_ov,
                   direct_todo, run_results, harnessVars, scriptVars>>

NextRerun == NextMapper \/ run_again

SpecRerun == InitMapper /\ [][NextRerun]_vars

-----------------------------------------------------------------------------
(* Claims about runs of CategoryMapper                                     *)

\* the rows of mapping_results for the Foursquare category of that name
RowsOf(name) ==
    {k \in DOMAIN mapping_results : mapping_results[k].foursquare_name = name}

\* the Foursquare category of that name has one row, matched with the target
TheRowOf(name) == mapping_results[CHOOSE k \in RowsOf(name) : TRUE]

\* the run on the tables of the end-to-end scenario is over
ScenarioDone ==
    /\ pc = "done"
    /\ Len(foursquare_data) = 2
    /\ foursquare_data[1].name = "Coffee Shop"
    /\ foursquare_data[2].name = "Pizza Restaurant"
    /\ overture_data = ScenarioTargets

\* C23: on sources "Coffee Shop", "Pizza Restaurant" and targets
\* "coffee_shop", "pizza_place", "bank", each source has exactly one result
\* row; "Coffee Shop" is matched with "coffee_shop" at score 1.0, "Pizza
\* Restaurant" with "pizza_place" at a score above 0.3 and below 1.0, and
\* "bank" is claimed by no source.
C23_EndToEndScenario ==
    ScenarioDone =>
        /\ Cardinality(RowsOf("Coffee Shop")) = 1
        /\ Cardinality(RowsOf("Pizza Restaurant")) = 1
        /\ Len(mapping_results) = 2
        /\ TheRowOf("Coffee Shop").overture_category = Some("coffee_shop")
        /\ TheRowOf("Coffee Shop").similarity_score = One
        /\ TheRowOf("Pizza Restaurant").overture_category = Some("pizza_place")
        /\ RLt(Rat(3, 10), TheRowOf("Pizza Restaurant").similarity_score)
        /\ RLt(TheRowOf("Pizza Restaurant").similarity_score, One)
        /\ 2 \notin matched_overture
        /\ \A r \in Results : r.overture_category # Some("bank")

\* the run on the scenario's tables is over with both sources matched
C23_Witness ==
    /\ ScenarioDone
    /\ Cardinality(MatchedRows) = 2

\* C26: a second run of categorize_by_semantics and find_best_matches on
\* the same CategoryMapper and the same tables leaves mapping_results as the
\* first run left it.
C26_RerunLeavesResults ==
    Len(run_results) >= 2 => run_results[2] = run_results[1]

\* the rows a step appends to mapping_results
NewRows == (Len(mapping_results) + 1)..Len(mapping_results')

\* C27: in every step of find_best_matches matched_overture only grows and
\* mapping_results is only appended to, and the target of a newly recorded
\* match was unclaimed before the step and is claimed by it, before the next
\* source is scored.
C27_GreedyAppendOnly ==
    [][/\ matched_overture \subseteq matched_overture'
       /\ Len(mapping_results) <= Len(mapping_results')
       /\ SubSeq(mapping_results', 1, Len(mapping_results)) = mapping_results
       /\ \A k \in NewRows :
              mapping_results'[k].overture_category # None =>
                  /\ mapping_results'[k].overture_index[1] \in matched_overture'
                  /\ mapping_results'[k].overture_index[1] \notin matched_overture
      ]_vars

\* a finished run in which a later source scores higher against the target
\* of an earlier source than that source did
C27_Witness ==
    /\ pc = "done"
    /\ \E k \in MatchedRows :
           \E j \in DOMAIN mapping_results :
               /\ j > k
               /\ RLt(mapping_results[k].similarity_score,
                      PassScore(mapping_results[j],
                                mapping_results[k].overture_index[1]))

-----------------------------------------------------------------------------
(* Runs of category_mapping_script.py and of map_om_to_fsq.py              *)

\* a run of category_mapping_script.py or of map_om_to_fsq.py is started
InitInputs ==
    /\ script \in {"category_mapping_script", "map_om_to_fsq"}
    /\ run_pc = "start" /\ exception = "none"
    /\ fsq_df = <<>> /\ om_df = <<>> /\ todo = <<>>
    /\ out_rows = <<>> /\ written = None /\ amb_rows = <<>>
    /\ IdleHarness
    /\ IdleMapper

NextInputs ==
    \/ CMS_load
    \/ CMS_load_failed
    \/ CMS_step
    \/ CMS_finish
    \/ MOF_missing
    \/ MOF_load
    \/ MOF_step
    \/ MOF_finish

SpecInputs == InitInputs /\ [][NextInputs]_vars

\* the run was ended because an input could not be read
Aborted ==
    \/ script = "map_om_to_fsq" /\ run_pc = "exited"
    \/ script = "category_mapping_script" /\ run_pc = "returned"

\* C24: a run that ends for a missing input ends at its start, with no
\* source matched and the output file neither created nor written
\* (map_om_to_fsq.main exits, category_mapping_script.map_categories
\* returns), and nothing is done after it: there is no retry.
C24_MissingInputAborts ==
    [][/\ Aborted' => /\ run_pc = "start"
                      /\ out_rows' = <<>>
                      /\ written' = None
                      /\ fsq_df' = <<>> /\ om_df' = <<>>
       /\ ~Aborted
      ]_vars

\* map_om_to_fsq.main has exited for a missing input file
C24_Witness ==
    /\ script = "map_om_to_fsq"
    /\ run_pc = "exited"
    /\ exception = "SystemExit"
    /\ written = None

\* the Foursquare table has a row with the ID the manual table gives the source
ManuallyMapped(om_category) ==
    \E p \in CMS_manual_mappings :
        /\ p[1] = om_category
        /\ \E i \in DOMAIN fsq_df : fsq_df[i].id = p[2]

\* C25: in each iteration of the loop of map_categories, a source that is a
\* key of the manual table with its ID in the Foursquare table gets exactly
\* one result, with mapping_method 'manual', confidence 100.0 and that ID;
\* any other source gets no manual result (an automatic one, or none).
C25_ManualTakesPrecedence ==
    [][(script = "category_mapping_script" /\ run_pc = "mapping" /\ todo # <<>>) =>
          IF ManuallyMapped(Head(todo))
          THEN /\ Len(out_rows') = Len(out_rows) + 1
               /\ SubSeq(out_rows', 1, Len(out_rows)) = out_rows
               /\ out_rows'[Len(out_rows')].om_category = Head(todo)
               /\ out_rows'[Len(out_rows')].mapping_method = "manual"
               /\ out_rows'[Len(out_rows')].confidence_score = Hundred
               /\ <<Head(todo), out_rows'[Len(out_rows')].fsq_category_id>>
                      \in CMS_manual_mappings
          ELSE \A k \in (Len(out_rows) + 1)..Len(out_rows') :
                   out_rows'[k].mapping_method = "automatic"
      ]_vars

\* a finished run over a Foursquare table of several rows with a manual
\* result for a source whose mapped row is not the first of the table
C25_Witness ==
    /\ script = "category_mapping_script"
    /\ run_pc = "done"
    /\ Len(fsq_df) >= 2
    /\ \E k \in DOMAIN out_rows :
           /\ out_rows[k].mapping_method = "manual"
           /\ out_rows[k].fsq_category_id # fsq_df[1].id

-----------------------------------------------------------------------------
(* Claims about the rows map_om_to_fsq.main writes                         *)

\* the three (index, score) pairs main reports for the k-th source label
Reported(k) == MOF_padded(out_rows[k].matches)

\* row_at(i) is a row of the Foursquare table, not the blank row
NonBlank(i) == i >= 0 /\ i < Len(fsq_df)

\* C28: in every row map_om_to_fsq.main writes, the Foursquare rows reported
\* as best match, alternate 1 and alternate 2 that are not blank are pairwise
\* distinct rows of the table, padded match lists included.
C28_ReportedRowsDistinct ==
    script = "map_om_to_fsq" =>
        \A k \in DOMAIN out_rows :
            \A a, b \in 1..3 :
                (/\ a # b
                 /\ NonBlank(Reported(k)[a].idx)
                 /\ NonBlank(Reported(k)[b].idx))
                    => Reported(k)[a].idx # Reported(k)[b].idx

-----------------------------------------------------------------------------
(* om_to_fsq_map.py: calls of choose_best_matches                          *)

\* most rows of the Foursquare table the candidates are built from
MaxChooseRows == 2

\* greatest limit of a call
MaxLimit == 2

\* an index no row of the drawn tables has
OutsideIndex == 7

\* the values of allowed_fsq_indices drawn; {} stands for None
AllowedSamples == {{}, {0}, {1}, {0, 1}, {OutsideIndex}}

\* the scores fuzz.WRatio gives the search texts of a call
ChooseScores == {85, 100}

\* the calls drawn on a list of candidates: allowed_fsq_indices, limit, and
\* the score of each search text
ChooseCalls(candidates) ==
    UNION {{<<candidates, allowed, limit, score>> :
               score \in [DOMAIN OFM_search(candidates, allowed) -> ChooseScores]} :
              allowed \in AllowedSamples, limit \in 1..MaxLimit}

\* the calls drawn, on the candidates of the drawn Foursquare tables
ChooseInputs ==
    UNION {ChooseCalls(OFM_candidates(df)) : df \in TargetTables(MaxChooseRows)}

\* a call of choose_best_matches is about to be made
InitChoose ==
    /\ fn = "choose_best_matches"
    /\ args \in ChooseInputs
    /\ ret = None
    /\ IdleMapper
    /\ IdleScripts

Call_choose_best_matches ==
    /\ fn = "choose_best_matches"
    /\ ret = None
    /\ ret' = Some(OFM_choose_best_matches(OFM_search(args[1], args[2]),
                                           args[4], args[3]))
    /\ UNCHANGED <<fn, args, mapperVars, scriptVars>>

NextChoose == Call_choose_best_matches

SpecChoose == InitChoose /\ [][NextChoose]_vars

-----------------------------------------------------------------------------
(* Claims about choose_best_matches                                        *)

\* some candidate text belongs to an allowed row
Restricted(candidates, allowed) ==
    \E k \in DOMAIN candidates : candidates[k].index \in allowed

\* the candidates the claim has the search made over
Searched(candidates, allowed) ==
    IF Restricted(candidates, allowed)
    THEN SelectSeq(candidates, LAMBDA c : c.index \in allowed)
    ELSE candidates

\* the scores of the searched candidates of row fsq_idx
ScoresOfRow(searched, score, fsq_idx) ==
    {score[k] : k \in {k \in DOMAIN searched : searched[k].index = fsq_idx}}

\* n is the greatest element of S
IsMax(n, S) == n \in S /\ \A m \in S : m <= n

\* the property of C29 for a call and the list it returned
RestrictedTopRows(candidates, allowed, limit, score, top) ==
    /\ Restricted(candidates, allowed) =>
           \A k \in DOMAIN top : top[k].fsq_idx \in allowed
    /\ (candidates # <<>>) =>
           /\ top # <<>>
           /\ IsMax(top[1].key[1], Range(score))
    /\ \A j, k \in DOMAIN top : top[j].fsq_idx = top[k].fsq_idx => j = k
    /\ \A k \in DOMAIN top :
           /\ top[k].key[2] = 1
           /\ IsMax(top[k].key[1],
                    ScoresOfRow(Searched(candidates, allowed), score,
                                top[k].fsq_idx))
    /\ Len(top) <= limit
    /\ \A k \in 1..(Len(top) - 1) : RLe(top[k + 1].key, top[k].key)

\* C29: choose_best_matches searches the candidates of the allowed rows when
\* there is one (every returned row is then allowed), and all candidates
\* when allowed_fsq_indices is None or holds no candidate's row (the best of
\* all scores then heads the list); each row is returned at most once, with
\* the highest score of its searched candidates, and at most 'limit' rows
\* are returned, in non-increasing order of score.
C29_RestrictedTopRows ==
    Returned("choose_best_matches") =>
        RestrictedTopRows(args[1], args[2], args[3], args[4], ret[1])

\* a call restricted to a proper part of the candidates, with more than
\* limit * 3 search texts, that returned a row whose two candidates differ
\* in score
C29_Witness ==
    /\ Returned("choose_best_matches")
    /\ Restricted(args[1], args[2])
    /\ Len(Searched(args[1], args[2])) < Len(args[1])
    /\ \E k \in DOMAIN ret[1] :
           Cardinality(ScoresOfRow(Searched(args[1], args[2]), args[4],
                                   ret[1][k].fsq_idx)) = 2

\* a call that fell back to all candidates, more than limit * 3 of them, and
\* returned limit rows
C29_WitnessFallback ==
    /\ Returned("choose_best_matches")
    /\ args[2] # {}
    /\ ~Restricted(args[1], args[2])
    /\ Len(args[1]) > 3 * args[3]
    /\ Len(ret[1]) = args[3]

=============================================================================
